---- MODULE Spec2Model ----
(***************************************************************************)
(* RouteMaster backend: the real-time tracking pipeline.                   *)
(*                                                                         *)
(* Driver sockets (/driver namespace) send driver:toggle and driver:move;  *)
(* BusService checks the assignment and upserts the Bus document; the      *)
(* MongoDB change stream on the buses collection is re-broadcast by        *)
(* ChangeStreamWatcher.handleChange; passenger sockets (/user namespace)   *)
(* join bus:<id> / route:<id> rooms; StaleMonitorWorker demotes buses      *)
(* whose lastUpdateAt is older than 60 s.                                  *)
(*                                                                         *)
(* Time is in milliseconds.  Coordinates are in units of 1e-5 degree near  *)
(* (0,0), where the Haversine distance is R * sqrt(dLat^2 + dLng^2) to     *)
(* within a millimetre.                                                    *)
(***************************************************************************)
EXTENDS Integers, Sequences, FiniteSets, TLC

(* ------------------------------------------------------------------ *)
(* Universe and bounds                                                 *)
(* ------------------------------------------------------------------ *)
Drivers == {"d1", "d2"}
Buses == {"BUS001", "BUS002"}
Routes == {"RT1", "RT2"}
Passengers == {"p1", "p2"}
Sockets == Passengers \cup Drivers

MaxTime == 180000
ClockStep == 30000
MaxDriverEvents == 2
MaxSubscribes == 2
MaxHandshakes == 2
ScenarioEvents == 3

(* Assignment documents (models/Assignment), a set createAssignment      *)
(* accepts: shifts of one driver, one bus or one route meet at an instant *)
(* but do not overlap.  BUS001 is handed from d1 on RT1 to d2 on RT2 at   *)
(* 60 s, when d1 moves to BUS002.  a4 is an earlier shift of d1 on BUS001, *)
(* on RT2, which ends at the instant a1 starts.                            *)
Assignments ==
  [a1 |-> [driverId |-> "d1", busId |-> "BUS001", routeId |-> "RT1",
           shiftStart |-> 0, shiftEnd |-> 60000],
   a2 |-> [driverId |-> "d2", busId |-> "BUS001", routeId |-> "RT2",
           shiftStart |-> 60000, shiftEnd |-> 240000],
   a3 |-> [driverId |-> "d1", busId |-> "BUS002", routeId |-> "RT1",
           shiftStart |-> 60000, shiftEnd |-> 120000],
   a4 |-> [driverId |-> "d1", busId |-> "BUS001", routeId |-> "RT2",
           shiftStart |-> -60000, shiftEnd |-> 0]]
AssignIds == DOMAIN Assignments

(* Inputs of driver:move: <<lng, lat, speed, heading, ts>>.  The second   *)
(* sample is 20.0 m and 3 s from the first; the third has an invalid     *)
(* speed.                                                                 *)
Samples == {<<0, 0, 40, 90, 0>>, <<0, 18, 40, 90, 3000>>, <<0, 18, 201, 90, 3000>>}

(* Samples around the thresholds of the throttle: 17 units are 18.9 m, 18 *)
(* units 20.0 m.                                                          *)
ThrottleSamples ==
  {<<0, 0, 40, 90, 0>>, <<0, 17, 40, 90, 2000>>, <<0, 18, 40, 90, 1999>>,
   <<0, 18, 40, 90, 2000>>, <<18, 0, 40, 90, 5000>>}

(* Three samples of one trip, at 0, 1 and 3 s of the client's clock, 20 m *)
(* from one to the next (40 m from the first to the third).               *)
ScenarioSamples ==
  {<<0, 0, 40, 90, 0>>, <<0, 18, 40, 90, 1000>>, <<0, 36, 40, 90, 3000>>}

(* The driver events of the assignment-gating specification *)
GatedTargets == {<<"d1", "BUS001">>, <<"d2", "BUS001">>}
GatedSample == <<0, 0, 40, 90, 0>>
GatedAssignments == {"a1"}

(* The (driver, bus) pairs that driver events address *)
DriverTargets == {<<"d1", "BUS001">>, <<"d2", "BUS001">>, <<"d1", "BUS002">>}

Min(a, b) == IF a < b THEN a ELSE b

VARIABLES
  now,          \* server clock (ms)
  assignActive, \* Assignment.active per assignment document
  bus,          \* buses collection: busId -> Bus document (partial function)
  updates,      \* LocationThrottler.updates: driverId -> LocationUpdate
  stream,       \* change events of the buses collection not yet handled
  rooms,        \* socket -> set of rooms joined (in the socket's namespace)
  inbox,        \* socket -> sequence of events emitted to it
  subPend,      \* passenger -> subscribe:bus whose store read is in flight
  drvConn,      \* driver -> socket connected
  drvData,      \* driver -> driverData.busId / routeId stashed on the socket
  drvOp,        \* driver -> handler suspended at an await
  drvReply,     \* driver -> sequence of driver:* replies sent to the socket
  stalePc,      \* StaleMonitorWorker: "idle", "due" (cron fired), "run"
  staleBuses,   \* result of the worker's find, not yet updated
  evLog,        \* history: the driver:toggle / driver:move events received
  nSub,         \* number of subscribe events received
  writeLog,     \* history: the store mutations in write order
  quietSince,   \* history: busId -> instant since which the bus is online
                \* without an accepted sample
  snapLog,      \* history: the subscribe:bus snapshots read and emitted
  httpResp,     \* the latest response of the read API (/buses)
  authLog,      \* history: the handshakes of the /driver namespace
  drvSock,      \* driver -> position in authLog of the handshake of its
                \* socket (0: admitted before the log starts)
  docCount,     \* busId -> number of documents of the buses collection
                \* with that busId (bus holds the one findOne returns)
  smoothedSpeeds, \* ETAWorker.smoothedSpeeds: busId -> speed (0.001 km/h)
  watcher,      \* the ChangeStreamWatcher: its fields, the streams it has
                \* opened, its timers, and the history of what it did
  staleEmit,    \* StaleMonitorWorker: the bus:status payloads of an update
                \* that has resolved, not yet emitted
  drvOld        \* driver -> driverData of an earlier socket of the driver
                \* whose disconnect has not been processed yet

vars == <<now, assignActive, bus, updates, stream, rooms, inbox, subPend,
          drvConn, drvData, drvOp, drvReply, stalePc, staleBuses, evLog,
          nSub, writeLog, quietSince, snapLog, httpResp, authLog, drvSock,
          docCount, smoothedSpeeds, watcher, staleEmit, drvOld>>

(* ------------------------------------------------------------------ *)
(* LocationThrottler (utils/locationThrottle.ts)                       *)
(* ------------------------------------------------------------------ *)
MIN_TIME_INTERVAL == 2000
MIN_DISTANCE == 20
EarthRadius == 6371000

(* Millimetres per coordinate unit: R * (pi/180) * 1e-5 deg, rounded.    *)
MmPerUnit == ((EarthRadius \div 1000) * 3550 + 10170) \div (113 * 180)

RECURSIVE IsqrtIter(_, _, _)
IsqrtIter(n, lo, hi) ==
  IF lo >= hi THEN lo
  ELSE LET mid == (lo + hi + 1) \div 2 IN
       IF mid * mid <= n THEN IsqrtIter(n, mid, hi) ELSE IsqrtIter(n, lo, mid - 1)
Isqrt(n) == IsqrtIter(n, 0, 46340)

(* Distance in millimetres between two coordinates (the source returns    *)
(* metres as a float; the comparison below scales MIN_DISTANCE instead).  *)
(* The haversine formula for points a few units apart near the equator,   *)
(* where cos(lat) = 1 and the arc equals the chord to within 1e-8.        *)
calculateDistance(lat1, lng1, lat2, lng2) ==
  LET dLat == MmPerUnit * (lat2 - lat1)
      dLng == MmPerUnit * (lng2 - lng1)
  IN  Isqrt(dLat * dLat + dLng * dLng)

LocationUpdate(driverId, lng, lat, timestamp) ==
  [driverId |-> driverId, timestamp |-> timestamp, coordinates |-> <<lng, lat>>]

(* the throttle without the time threshold *)
shouldUpdate_NoInterval(upd, driverId, lng, lat, timestamp) ==
  IF driverId \notin DOMAIN upd THEN TRUE
  ELSE calculateDistance(upd[driverId].coordinates[2], upd[driverId].coordinates[1],
                         lat, lng) >= MIN_DISTANCE * 1000

(* the throttle without the distance threshold *)
shouldUpdate_NoDistance(upd, driverId, lng, lat, timestamp) ==
  IF driverId \notin DOMAIN upd THEN TRUE
  ELSE timestamp - upd[driverId].timestamp >= MIN_TIME_INTERVAL

(* The boolean that shouldUpdate returns for the map upd.                 *)
shouldUpdate(upd, driverId, lng, lat, timestamp) ==
  IF driverId \notin DOMAIN upd THEN TRUE
  ELSE LET lastUpdate == upd[driverId]
           timeDiff == timestamp - lastUpdate.timestamp
       IN  IF timeDiff < MIN_TIME_INTERVAL THEN FALSE
           ELSE IF calculateDistance(lastUpdate.coordinates[2],
                                     lastUpdate.coordinates[1], lat, lng)
                   < MIN_DISTANCE * 1000
                THEN FALSE
                ELSE TRUE

(* a throttle that stores every sample it is shown *)
updatesAfter_Always(upd, driverId, lng, lat, timestamp) ==
  (driverId :> LocationUpdate(driverId, lng, lat, timestamp)) @@ upd

(* The map after shouldUpdate: the entry is replaced iff it returned true. *)
updatesAfter(upd, driverId, lng, lat, timestamp) ==
  IF shouldUpdate(upd, driverId, lng, lat, timestamp)
  THEN (driverId :> LocationUpdate(driverId, lng, lat, timestamp)) @@ upd
  ELSE upd

(* a clearDriver that keeps the entry *)
clearDriver_Keep(upd, driverId) == upd

clearDriver(upd, driverId) ==
  [d \in DOMAIN upd \ {driverId} |-> upd[d]]

(* ------------------------------------------------------------------ *)
(* Store: assignments and buses collections                            *)
(* ------------------------------------------------------------------ *)
(* the lookup without the active flag *)
findAssignment_Inactive(driverId, busId, t) ==
  {a \in AssignIds :
     /\ Assignments[a].driverId = driverId
     /\ Assignments[a].busId = busId
     /\ Assignments[a].shiftStart <= t
     /\ Assignments[a].shiftEnd >= t}

(* the lookup without the shift window *)
findAssignment_AnyShift(driverId, busId, t) ==
  {a \in AssignIds :
     /\ Assignments[a].driverId = driverId
     /\ Assignments[a].busId = busId
     /\ assignActive[a]}

(* Assignment.findOne({driverId, busId, active: true, shiftStart <= t,    *)
(* shiftEnd >= t}): the documents that match; findOne returns one.        *)
findAssignment(driverId, busId, t) ==
  {a \in AssignIds :
     /\ Assignments[a].driverId = driverId
     /\ Assignments[a].busId = busId
     /\ assignActive[a]
     /\ Assignments[a].shiftStart <= t
     /\ Assignments[a].shiftEnd >= t}

NoLocation == <<>>

(* Schema defaults applied when an upsert inserts the document.           *)
BusDefaults(t) ==
  [routeId |-> "", driverId |-> "", online |-> FALSE, location |-> NoLocation,
   speed |-> 0, heading |-> 0, lastOnlineAt |-> t, lastUpdateAt |-> t,
   status |-> "idle"]

Merge(doc, upd) ==
  [f \in DOMAIN doc |-> IF f \in DOMAIN upd THEN upd[f] ELSE doc[f]]

(* Bus.findOneAndUpdate({busId}, busData, {new, upsert}): the collection   *)
(* afterwards.                                                            *)
findOneAndUpdate(coll, busId, busData, t) ==
  (busId :> Merge(IF busId \in DOMAIN coll THEN coll[busId] ELSE BusDefaults(t),
                  busData)) @@ coll

(* busData with lastUpdateAt ahead of the server clock *)
toggleBusData_Ahead(driverId, routeId, online, t, tOnline) ==
  [routeId |-> routeId, driverId |-> driverId, online |-> online,
   lastUpdateAt |-> t + ClockStep, lastOnlineAt |-> tOnline]

(* busData of toggleBusStatus: lastUpdateAt is new Date() at t, and       *)
(* lastOnlineAt a second new Date(), at tOnline >= t.                     *)
toggleBusData(driverId, routeId, online, t, tOnline) ==
  IF online
  THEN [routeId |-> routeId, driverId |-> driverId, online |-> online,
        lastUpdateAt |-> t, lastOnlineAt |-> tOnline]
  ELSE [routeId |-> routeId, driverId |-> driverId, online |-> online,
        lastUpdateAt |-> t]

(* busData of updateBusLocation: the object literal evaluates             *)
(* lastUpdateAt: new Date() at t, then lastOnlineAt: new Date() at        *)
(* tOnline >= t.                                                          *)
locationBusData(driverId, routeId, lng, lat, speed, heading, t, tOnline) ==
  [routeId |-> routeId, driverId |-> driverId, online |-> TRUE,
   location |-> <<lng, lat>>, speed |-> speed, heading |-> heading,
   lastUpdateAt |-> t, lastOnlineAt |-> tOnline]

(* Range checks at the head of updateBusLocation: the error, or "".       *)
(* Coordinates are in units of 1e-5 degree.                               *)
validateRanges(lng, lat, speed, heading) ==
  IF lng < -180 * 100000 \/ lng > 180 * 100000
     \/ lat < -90 * 100000 \/ lat > 90 * 100000
  THEN "Invalid coordinates"
  ELSE IF speed < 0 \/ speed > 200 THEN "Invalid speed value"
  ELSE IF heading < 0 \/ heading > 360 THEN "Invalid heading value"
  ELSE ""

NoAssignmentError == "No active assignment found for this bus"

(* ------------------------------------------------------------------ *)
(* Socket.IO rooms and emits                                           *)
(* ------------------------------------------------------------------ *)
BusRoom(b) == <<"bus", b>>
RouteRoom(r) == <<"route", r>>
DriverRoom(d) == <<"driver", d>>

(* Passenger sockets live in /user, driver sockets in /driver.  No socket *)
(* of the main namespace "/" ever joins a room (sockets/index.ts 253-259).*)
Namespace(s) == IF s \in Passengers THEN "/user" ELSE "/driver"

(* io.of(ns).to(room).emit(e): every socket of that namespace in the room *)
(* gets e.  Rooms are per namespace.                                      *)
Emit(inb, ns, room, e) ==
  [s \in Sockets |->
     IF Namespace(s) = ns /\ room \in rooms[s] THEN Append(inb[s], e) ELSE inb[s]]

(* An emitted event.  seq is the position in writeLog of the mutation the *)
(* event announces (of the latest mutation read, for a snapshot).         *)
Event(ev, busId, doc, seq, src) ==
  [ev |-> ev, busId |-> busId, routeId |-> doc.routeId,
   driverId |-> doc.driverId, online |-> doc.online,
   lastOnlineAt |-> doc.lastOnlineAt, lastUpdateAt |-> doc.lastUpdateAt,
   seq |-> seq, src |-> src]

(* ------------------------------------------------------------------ *)
(* History helpers                                                     *)
(* ------------------------------------------------------------------ *)
(* Some assignment of (driverId, busId) is active and covers instant t.   *)
Covering(driverId, busId, t) ==
  \E a \in AssignIds :
     /\ Assignments[a].driverId = driverId
     /\ Assignments[a].busId = busId
     /\ assignActive[a]
     /\ Assignments[a].shiftStart <= t
     /\ t <= Assignments[a].shiftEnd

(* A driver event as received: whether an assignment covered it, whether *)
(* the throttle had no entry for the driver (fresh), whether the throttle *)
(* rejected it, and the error of the range checks ("" if none).           *)
DriverEvent(kind, driverId, busId, lng, lat, speed, heading, ts, fresh, throttled,
            rangeError) ==
  [kind |-> kind, driverId |-> driverId, busId |-> busId, lng |-> lng,
   lat |-> lat, speed |-> speed, heading |-> heading, ts |-> ts, at |-> now, covered |-> Covering(driverId, busId, now),
   fresh |-> fresh, throttled |-> throttled, rangeError |-> rangeError]

WriteRecord(kind, busId, doc, checked, listeners, evt) ==
  [kind |-> kind, busId |-> busId, driverId |-> doc.driverId, evt |-> evt,
   routeId |-> doc.routeId, online |-> doc.online, at |-> now,
   covered |-> Covering(doc.driverId, busId, now), checked |-> checked,
   listeners |-> listeners]

ChangeEvent(seq, busId, doc) ==
  [seq |-> seq, busId |-> busId, fullDocument |-> doc]

(* seq of the latest mutation of busId, 0 if none *)
LastSeq(busId) ==
  LET S == {i \in 1..Len(writeLog) : writeLog[i].busId = busId}
  IN  IF S = {} THEN 0 ELSE CHOOSE i \in S : \A j \in S : j <= i

NoData == [busId |-> "", routeId |-> ""]

(* ------------------------------------------------------------------ *)
(* ChangeStreamWatcher (sockets/index.ts 290-455)                       *)
(* ------------------------------------------------------------------ *)
ReconnectDelay == 5000
RetryDelay == 30000

(* A stream Bus.watch() returned, with the change, error and close        *)
(* handlers of startWatching on it.  closeEvt: the stream's 'close' event  *)
(* is not due ("none"), emitted and not yet dispatched ("pending"), or     *)
(* dispatched ("done").                                                    *)
NewStream == [closed |-> FALSE, closeEvt |-> "none"]

(* The watcher after initializeSockets: startWatching has opened the first *)
(* stream.  changeStream is the position of this.changeStream in streams   *)
(* (0: null); attempts, reconnects, handled and stopped are history.       *)
WatcherStarted ==
  [isWatching |-> TRUE, changeStream |-> 1, streams |-> <<NewStream>>,
   timers |-> <<>>, attempts |-> <<>>, reconnects |-> <<>>, handled |-> <<>>,
   writes |-> 0, faults |-> 0, failures |-> 0, stopped |-> FALSE]

(* stream.close(): an open stream is closed and emits 'close' *)
closeStream(streams, s) ==
  IF s /= 0 /\ ~streams[s].closed
  THEN [streams EXCEPT ![s] = [closed |-> TRUE, closeEvt |-> "pending"]]
  ELSE streams

(* startWatching without the isWatching check *)
startWatching_NoGuard(w) ==
  [w EXCEPT !.streams = Append(@, NewStream),
            !.changeStream = Len(w.streams) + 1,
            !.isWatching = TRUE]

(* startWatching when Bus.watch() returns a stream *)
startWatching(w) ==
  IF w.isWatching THEN w
  ELSE [w EXCEPT !.streams = Append(@, NewStream),
                 !.changeStream = Len(w.streams) + 1,
                 !.isWatching = TRUE]

(* reconnect() at instant t: the current stream is closed, isWatching is   *)
(* cleared and startWatching is scheduled 5 s later.                       *)
reconnect(w, t) ==
  [w EXCEPT !.streams = closeStream(@, w.changeStream),
            !.isWatching = FALSE,
            !.timers = Append(@, [due |-> t + ReconnectDelay, kind |-> "start"]),
            !.reconnects = Append(@, t)]

(* stopWatching() *)
stopWatching(w) ==
  [w EXCEPT !.streams = closeStream(@, w.changeStream),
            !.changeStream = 0,
            !.isWatching = FALSE,
            !.stopped = TRUE]

(* The state after construction (initializeSockets): nothing stored, no   *)
(* socket connected, the workers started.                                 *)
StoreWith(active) ==
  /\ now = 0
  /\ assignActive = active
  /\ bus = <<>>
  /\ updates = <<>>
  /\ stream = <<>>
  /\ subPend = <<>>
  /\ drvData = [d \in Drivers |-> NoData]
  /\ drvOp = <<>>
  /\ drvReply = [d \in Drivers |-> <<>>]
  /\ stalePc = "idle"
  /\ staleBuses = {}
  /\ evLog = <<>>
  /\ nSub = 0
  /\ writeLog = <<>>
  /\ quietSince = [b \in Buses |-> 0]
  /\ snapLog = <<>>
  /\ httpResp = [kind |-> "none"]
  /\ authLog = <<>>
  /\ drvSock = [d \in Drivers |-> 0]
  /\ docCount = [b \in Buses |-> 0]
  /\ smoothedSpeeds = <<>>
  /\ watcher = WatcherStarted
  /\ staleEmit = <<>>
  /\ drvOld = <<>>

RouteBuses(r, buses) ==
  [ev |-> "route:buses", routeId |-> r, buses |-> buses, src |-> "snapshot"]

(* the store at the start, the earlier shift a4 deactivated *)
InitStore == StoreWith([a \in AssignIds |-> a /= "a4"])

(* Both drivers have connected; p1 has subscribed to bus:BUS001 and       *)
(* route:RT1 and p2 to route:RT1 while the store was empty (so each got   *)
(* an empty route:buses and no bus:status).                               *)
Init ==
  /\ InitStore
  /\ drvConn = [d \in Drivers |-> TRUE]
  /\ rooms = [s \in Sockets |->
       IF s \in Drivers THEN {DriverRoom(s)}
       ELSE IF s = "p1" THEN {BusRoom("BUS001"), RouteRoom("RT1")}
       ELSE {RouteRoom("RT1")}]
  /\ inbox = [s \in Sockets |->
       IF s \in Drivers THEN <<>> ELSE <<RouteBuses("RT1", {})>>]

(* ------------------------------------------------------------------ *)
(* Driver namespace (sockets/index.ts 55-187, services/busService.ts)  *)
(* ------------------------------------------------------------------ *)
(* a driver:* reply; evt is the position in evLog of the event answered  *)
Reply(ev, busId, error, evt) ==
  [ev |-> ev, busId |-> busId, error |-> error, evt |-> evt]

Op(kind, busId, online, lng, lat, speed, heading, detached, evt) ==
  [kind |-> kind, phase |-> "find", busId |-> busId, online |-> online,
   lng |-> lng, lat |-> lat, speed |-> speed, heading |-> heading,
   routeId |-> "", detached |-> detached, evt |-> evt, checked |-> FALSE,
   matched |-> "unknown",
   listeners |-> {p \in Passengers : BusRoom(busId) \in rooms[p]}]

DropOp(d) == [x \in DOMAIN drvOp \ {d} |-> drvOp[x]]

(* connection: the handshake passed authenticateSocket; the socket joins   *)
(* driver:<driverId>.                                                     *)
DriverConnect(d) ==
  /\ ~drvConn[d]
  /\ d \notin DOMAIN drvOp
  /\ drvConn' = [drvConn EXCEPT ![d] = TRUE]
  /\ rooms' = [rooms EXCEPT ![d] = {DriverRoom(d)}]
  /\ drvData' = [drvData EXCEPT ![d] = NoData]
  /\ drvSock' = [drvSock EXCEPT ![d] = 0]
  /\ UNCHANGED <<drvOld, staleEmit, watcher, smoothedSpeeds, docCount, authLog, httpResp, now, assignActive, bus, updates, stream, inbox, subPend, drvOp,
                 drvReply, stalePc, staleBuses, evLog, nSub, writeLog,
                 quietSince, snapLog>>

(* ------------------------------------------------------------------ *)
(* Handshake of the /driver namespace (sockets/index.ts 40-53,         *)
(* utils/socketAuth.ts, utils/jwt.ts)                                  *)
(* ------------------------------------------------------------------ *)
(* The Driver collection, and a driverId no document of it carries *)
DriverDocs == Drivers
UnknownDriver == "d9"

(* handshake.auth.token: absent, or a string that parses as a JWT or not, *)
(* signed with JWT_SECRET or not, with its exp and driverId claims.       *)
Token(present, wellFormed, signed, exp, driverId) ==
  [present |-> present, wellFormed |-> wellFormed, signed |-> signed,
   exp |-> exp, driverId |-> driverId]

(* The tokens a client presents as driver d: none, a malformed one, one   *)
(* with a bad signature, its own token (which expires at the first       *)
(* minute), and a well-signed one of a driver that has no document.      *)
Tokens(d) ==
  {Token(FALSE, FALSE, FALSE, 0, ""),
   Token(TRUE, FALSE, FALSE, 0, ""),
   Token(TRUE, TRUE, FALSE, 240000, d),
   Token(TRUE, TRUE, TRUE, 60000, d),
   Token(TRUE, TRUE, TRUE, 240000, UnknownDriver)}

(* verifyToken (jwt.verify): the error, or "" and the payload is valid *)
verifyToken(token, t) ==
  IF ~token.wellFormed \/ ~token.signed THEN "Invalid token"
  ELSE IF t >= token.exp THEN "Token has expired"
  ELSE ""

(* authenticateSocket without the lookup of the Driver document *)
authenticateSocket_NoLookup(token, t) ==
  IF verifyToken(token, t) # "" THEN [ok |-> FALSE, driverId |-> ""]
  ELSE [ok |-> TRUE, driverId |-> token.driverId]

(* authenticateSocket: the socket data, or the failure *)
authenticateSocket(token, t) ==
  IF verifyToken(token, t) # "" THEN [ok |-> FALSE, driverId |-> ""]
  ELSE IF token.driverId \notin DriverDocs THEN [ok |-> FALSE, driverId |-> ""]
  ELSE [ok |-> TRUE, driverId |-> token.driverId]

(* driverNamespace.use: next() or next(Error) *)
driverMiddleware(token, t) ==
  IF ~token.present THEN [ok |-> FALSE, driverId |-> ""]
  ELSE authenticateSocket(token, t)

(* A client connects to /driver as driver d.  When the middleware calls   *)
(* next() the connection handler runs: the socket joins driver:<id> and   *)
(* its handlers are registered.  When it calls next(Error) the socket is  *)
(* refused and nothing else happens.                                     *)
DriverHandshake(d, token) ==
  /\ ~drvConn[d]
  /\ d \notin DOMAIN drvOp
  /\ Len(authLog) < MaxHandshakes
  /\ LET auth == driverMiddleware(token, now) IN
     /\ authLog' = Append(authLog, [client |-> d, token |-> token, at |-> now,
                                    accepted |-> auth.ok])
     /\ IF auth.ok
        THEN /\ drvConn' = [drvConn EXCEPT ![d] = TRUE]
             /\ rooms' = [rooms EXCEPT ![d] = {DriverRoom(auth.driverId)}]
             /\ drvData' = [drvData EXCEPT ![d] = NoData]
             /\ drvSock' = [drvSock EXCEPT ![d] = Len(authLog')]
        ELSE UNCHANGED <<drvConn, rooms, drvData, drvSock>>
  /\ UNCHANGED <<drvOld, staleEmit, watcher, smoothedSpeeds, docCount, httpResp, now, assignActive, bus, updates, stream, inbox, subPend,
                 drvOp, drvReply, stalePc, staleBuses, evLog, nSub, writeLog,
                 quietSince, snapLog>>

(* driver:toggle received: toggleBusStatus starts and suspends at          *)
(* Assignment.findOne.                                                    *)
DriverToggle(d, b, online) ==
  /\ drvConn[d]
  /\ d \notin DOMAIN drvOp
  /\ Len(evLog) < MaxDriverEvents
  /\ evLog' = Append(evLog, DriverEvent("toggle", d, b, 0, 0, 0, 0, 0, FALSE, FALSE, ""))
  /\ drvOp' = (d :> Op("toggle", b, online, 0, 0, 0, 0, FALSE, Len(evLog) + 1))
               @@ drvOp
  /\ UNCHANGED <<drvOld, staleEmit, watcher, smoothedSpeeds, docCount, authLog, drvSock, httpResp, now, assignActive, bus, updates, stream, rooms, inbox, subPend,
                 drvConn, drvData, drvReply, stalePc, staleBuses, nSub,
                 writeLog, quietSince, snapLog>>

(* driver:move received: the throttle decides first; a rejected sample is  *)
(* dropped without a reply.  An accepted one enters updateBusLocation,     *)
(* whose range checks run before its first await.                         *)
(* At most cap driver events are received in a behaviour.                  *)
DriverMoveWithin(cap, d, b, lng, lat, speed, heading, ts) ==
  /\ drvConn[d]
  /\ d \notin DOMAIN drvOp
  /\ Len(evLog) < cap
  /\ evLog' = Append(evLog,
       DriverEvent("move", d, b, lng, lat, speed, heading, ts, d \notin DOMAIN updates,
                   ~shouldUpdate(updates, d, lng, lat, ts),
                   validateRanges(lng, lat, speed, heading)))
  /\ updates' = updatesAfter(updates, d, lng, lat, ts)
  /\ IF ~shouldUpdate(updates, d, lng, lat, ts)
     THEN UNCHANGED <<drvOp, drvReply>>
     ELSE IF validateRanges(lng, lat, speed, heading) /= ""
     THEN /\ drvReply' = [drvReply EXCEPT ![d] =
               Append(@, Reply("driver:move:error", b,
                               validateRanges(lng, lat, speed, heading),
                               Len(evLog) + 1))]
          /\ UNCHANGED drvOp
     ELSE /\ drvOp' = (d :> Op("move", b, TRUE, lng, lat, speed, heading, FALSE,
                                Len(evLog) + 1)) @@ drvOp
          /\ UNCHANGED drvReply
  /\ UNCHANGED <<drvOld, staleEmit, watcher, smoothedSpeeds, docCount, authLog, drvSock, httpResp, now, assignActive, bus, stream, rooms, inbox, subPend, drvConn,
                 drvData, stalePc, staleBuses, nSub, writeLog, quietSince,
                 snapLog>>

DriverMove(d, b, lng, lat, speed, heading, ts) ==
  DriverMoveWithin(MaxDriverEvents, d, b, lng, lat, speed, heading, ts)

(* Assignment.findOne resolves.  Without a match the handler returns the   *)
(* error; with one it builds busData and suspends at findOneAndUpdate.     *)
DriverFind(d) ==
  /\ d \in DOMAIN drvOp
  /\ drvOp[d].phase = "find"
  /\ LET op == drvOp[d]
         found == findAssignment(d, op.busId, now)
     IN  IF found = {}
         THEN /\ drvOp' = DropOp(d)
              /\ drvReply' =
                   IF op.detached THEN drvReply
                   ELSE [drvReply EXCEPT ![d] =
                           Append(@, Reply(IF op.kind = "toggle"
                                           THEN "driver:toggle:error"
                                           ELSE "driver:move:error",
                                           op.busId, NoAssignmentError, op.evt))]
         ELSE /\ \E a \in found :
                   drvOp' = [drvOp EXCEPT ![d] =
                     [op EXCEPT !.phase = "write",
                                !.routeId = Assignments[a].routeId,
                                !.checked = Covering(d, op.busId, now)]]
              /\ UNCHANGED drvReply
  /\ UNCHANGED <<drvOld, staleEmit, watcher, smoothedSpeeds, docCount, authLog, drvSock, httpResp, now, assignActive, bus, updates, stream, rooms, inbox, subPend,
                 drvConn, drvData, stalePc, staleBuses, evLog, nSub, writeLog,
                 quietSince, snapLog>>

(* busData the suspended handler sends to the store *)
opBusData(d, op, tick) ==
  IF op.kind = "toggle"
  THEN toggleBusData(d, op.routeId, op.online, now, now + tick)
  ELSE locationBusData(d, op.routeId, op.lng, op.lat, op.speed, op.heading,
                       now, now + tick)

(* The insert of an upsert that matched no document.  The unique index   *)
(* {busId: 1} admits it only if no document carries the busId; otherwise  *)
(* it fails with a duplicate key and adds nothing.                        *)
insertBus_NoIndex(count, busId) == [count EXCEPT ![busId] = @ + 1]

insertBus(count, busId) ==
  IF count[busId] >= 1 THEN count ELSE [count EXCEPT ![busId] = 1]

(* The upsert of Bus.findOneAndUpdate starts: the store looks for a       *)
(* document with the busId.  The match and the write that follows are not *)
(* one atomic step of the store: another writer can insert in between.    *)
UpsertMatch(d) ==
  /\ d \in DOMAIN drvOp
  /\ drvOp[d].phase = "write"
  /\ drvOp[d].matched = "unknown"
  /\ drvOp' = [drvOp EXCEPT ![d].matched =
                 IF docCount[drvOp[d].busId] >= 1 THEN "yes" ELSE "no"]
  /\ UNCHANGED <<drvOld, staleEmit, watcher, smoothedSpeeds, docCount, authLog, drvSock, httpResp, now, assignActive, bus, updates,
                 stream, rooms, inbox, subPend, drvConn, drvData, drvReply,
                 stalePc, staleBuses, evLog, nSub, writeLog, quietSince, snapLog>>

(* Bus.findOneAndUpdate resolves: the document is written (a change event  *)
(* is queued), the service emits on the main namespace io.to(...), the     *)
(* socket joins the bus and route rooms and gets the success reply.  The   *)
(* clock advances by tick milliseconds between the two new Date() of the   *)
(* busData.  An upsert that matched no document inserts one; if another    *)
(* writer has inserted since, the insert fails on the unique index and the *)
(* store applies the upsert as an update of that document.                 *)
DriverStore(d, tick) ==
  /\ d \in DOMAIN drvOp
  /\ now + tick <= MaxTime
  /\ now' = now + tick
  /\ drvOp[d].phase = "write"
  /\ LET op == drvOp[d]
         b == op.busId
         coll == findOneAndUpdate(bus, b, opBusData(d, op, tick), now)
         doc == coll[b]
         seq == Len(writeLog) + 1
         ev == Event(IF op.kind = "toggle" THEN "bus:status" ELSE "bus:update",
                     b, doc, seq, "service")
         wasOnline == b \in DOMAIN bus /\ bus[b].online
     IN  /\ bus' = coll
         /\ docCount' =
               IF op.matched = "no" \/ (op.matched = "unknown" /\ docCount[b] = 0)
               THEN insertBus(docCount, b) ELSE docCount
         /\ stream' = Append(stream, ChangeEvent(seq, b, doc))
         /\ writeLog' = Append(writeLog,
               WriteRecord(IF op.kind = "toggle" THEN "toggle" ELSE "sample",
                           b, doc, op.checked, op.listeners, op.evt))
         /\ quietSince' =
               IF op.kind = "move" \/ (doc.online /\ ~wasOnline)
               THEN [quietSince EXCEPT ![b] = now] ELSE quietSince
         /\ inbox' = Emit(Emit(inbox, "/", BusRoom(b), ev),
                          "/", RouteRoom(doc.routeId), ev)
         /\ IF op.detached
            THEN UNCHANGED <<rooms, drvData, drvReply>>
            ELSE /\ rooms' = [rooms EXCEPT ![d] =
                      @ \cup {BusRoom(b)}
                        \cup (IF doc.routeId /= "" THEN {RouteRoom(doc.routeId)}
                              ELSE {})]
                 /\ drvData' = [drvData EXCEPT ![d] =
                      IF doc.routeId /= ""
                      THEN [busId |-> b, routeId |-> doc.routeId] ELSE @]
                 /\ drvReply' = [drvReply EXCEPT ![d] =
                      Append(@, Reply(IF op.kind = "toggle"
                                      THEN "driver:toggle:success"
                                      ELSE "driver:move:success", b, "", op.evt))]
  /\ drvOp' = DropOp(d)
  /\ UNCHANGED <<drvOld, staleEmit, watcher, smoothedSpeeds, authLog, drvSock, httpResp, assignActive, updates, subPend, drvConn, stalePc,
                 staleBuses, evLog, nSub, snapLog>>

(* the write within one millisecond of the clock *)
DriverWrite(d) == DriverStore(d, 0)

(* the write with the clock advancing between the two timestamps *)
DriverWriteTick(d) == DriverStore(d, 1)

(* The insert of an upsert fails with a duplicate key and the store gives *)
(* the error to the caller: the service catches it and returns the        *)
(* failure, nothing is written or emitted.                                *)
DriverStoreDuplicate(d) ==
  /\ d \in DOMAIN drvOp
  /\ drvOp[d].phase = "write"
  /\ drvOp[d].matched = "no"
  /\ insertBus(docCount, drvOp[d].busId) = docCount
  /\ drvReply' =
       IF drvOp[d].detached THEN drvReply
       ELSE [drvReply EXCEPT ![d] =
               Append(@, Reply(IF drvOp[d].kind = "toggle" THEN "driver:toggle:error"
                               ELSE "driver:move:error", drvOp[d].busId,
                               IF drvOp[d].kind = "toggle"
                               THEN "Failed to toggle bus status"
                               ELSE "Failed to update bus location",
                               drvOp[d].evt))]
  /\ drvOp' = DropOp(d)
  /\ UNCHANGED <<drvOld, staleEmit, watcher, smoothedSpeeds, docCount, authLog, drvSock, httpResp, now, assignActive, bus, updates,
                 stream, rooms, inbox, subPend, drvConn, drvData, stalePc,
                 staleBuses, evLog, nSub, writeLog, quietSince, snapLog>>

(* disconnect: the throttle entry is cleared and, if a bus was stashed on  *)
(* the socket, toggleBusStatus(driverId, busId, false) is started.         *)
DriverDisconnect(d) ==
  /\ drvConn[d]
  /\ d \notin DOMAIN drvOp
  /\ updates' = clearDriver(updates, d)
  /\ drvConn' = [drvConn EXCEPT ![d] = FALSE]
  /\ rooms' = [rooms EXCEPT ![d] = {}]
  /\ drvData' = [drvData EXCEPT ![d] = NoData]
  /\ drvOp' = IF drvData[d].busId /= ""
              THEN (d :> Op("toggle", drvData[d].busId, FALSE, 0, 0, 0, 0, TRUE, 0))
                   @@ drvOp
              ELSE drvOp
  /\ UNCHANGED <<drvOld, staleEmit, watcher, smoothedSpeeds, docCount, authLog, drvSock, httpResp, now, assignActive, bus, stream, inbox, subPend, drvReply,
                 stalePc, staleBuses, evLog, nSub, writeLog, quietSince,
                 snapLog>>

(* PATCH /assignments/:id/deactivate (controllers/assignmentsController)  *)
deactivateAssignment(a) ==
  /\ assignActive[a]
  /\ assignActive' = [assignActive EXCEPT ![a] = FALSE]
  /\ UNCHANGED <<drvOld, staleEmit, watcher, smoothedSpeeds, docCount, authLog, drvSock, httpResp, now, bus, updates, stream, rooms, inbox, subPend, drvConn,
                 drvData, drvOp, drvReply, stalePc, staleBuses, evLog, nSub,
                 writeLog, quietSince, snapLog>>

(* ------------------------------------------------------------------ *)
(* ChangeStreamWatcher (sockets/index.ts 290-461)                      *)
(* ------------------------------------------------------------------ *)
(* The stream is opened with fullDocument: 'updateLookup': the document   *)
(* of a change event is looked up after the update, so it is the          *)
(* post-image of that update or the document as later writes left it.     *)
fullDocuments(change) ==
  {change.fullDocument, bus[change.busId]}

(* handleChange: three separate emits of bus:update with the safePayload. *)
handleChange(seq, busId, busData) ==
  IF busData.routeId = ""
  THEN inbox
  ELSE LET safePayload == Event("bus:update", busId, busData, seq, "stream")
       IN  Emit(Emit(Emit(inbox, "/user", BusRoom(busId), safePayload),
                     "/user", RouteRoom(busData.routeId), safePayload),
                "/driver", DriverRoom(busData.driverId), safePayload)

HandleChange ==
  /\ stream /= <<>>
  /\ \E busData \in fullDocuments(Head(stream)) :
       inbox' = handleChange(Head(stream).seq, Head(stream).busId, busData)
  /\ stream' = Tail(stream)
  /\ UNCHANGED <<drvOld, staleEmit, watcher, smoothedSpeeds, docCount, authLog, drvSock, httpResp, now, assignActive, bus, updates, rooms, subPend, drvConn,
                 drvData, drvOp, drvReply, stalePc, staleBuses, evLog, nSub,
                 writeLog, quietSince, snapLog>>

(* ------------------------------------------------------------------ *)
(* User namespace (sockets/index.ts 190-250)                           *)
(* ------------------------------------------------------------------ *)
DropPend(p) == [x \in DOMAIN subPend \ {p} |-> subPend[x]]

NoResult == [found |-> FALSE, bus |-> BusDefaults(0)]

(* a read that returns a fresh document instead of the stored one *)
getBusStatus_Defaults(busId) ==
  IF busId \in DOMAIN bus THEN [found |-> TRUE, bus |-> BusDefaults(0)] ELSE NoResult

(* BusService.getBusStatus: the document, or null *)
getBusStatus(busId) ==
  IF busId \in DOMAIN bus THEN [found |-> TRUE, bus |-> bus[busId]] ELSE NoResult

(* the read without the online filter *)
getBusesOnRoute_AnyStatus(routeId) ==
  {b \in DOMAIN bus : bus[b].routeId = routeId}

(* BusService.getBusesOnRoute: Bus.find({routeId, online: true}) *)
getBusesOnRoute(routeId) ==
  {b \in DOMAIN bus : bus[b].routeId = routeId /\ bus[b].online}

(* subscribe:bus received: the socket joins bus:<busId> and the store read *)
(* is started.                                                            *)
SubscribeBus(p, b) ==
  /\ p \notin DOMAIN subPend
  /\ nSub < MaxSubscribes
  /\ nSub' = nSub + 1
  /\ rooms' = [rooms EXCEPT ![p] = @ \cup {BusRoom(b)}]
  /\ subPend' = (p :> [busId |-> b, at |-> now, phase |-> "read",
                       result |-> NoResult, readOnline |-> FALSE,
                       readSeq |-> 0, readAt |-> 0]) @@ subPend
  /\ UNCHANGED <<drvOld, staleEmit, watcher, smoothedSpeeds, docCount, authLog, drvSock, httpResp, now, assignActive, bus, updates, stream, inbox, drvConn,
                 drvData, drvOp, drvReply, stalePc, staleBuses, evLog,
                 writeLog, quietSince, snapLog>>

(* Bus.findOne is evaluated by the store *)
SnapshotRead(p) ==
  /\ p \in DOMAIN subPend
  /\ subPend[p].phase = "read"
  /\ LET b == subPend[p].busId
     IN  subPend' = [subPend EXCEPT ![p] =
           [@ EXCEPT !.phase = "emit",
                     !.result = getBusStatus(b),
                     !.readOnline = b \in DOMAIN bus /\ bus[b].online,
                     !.readSeq = LastSeq(b),
                     !.readAt = now]]
  /\ UNCHANGED <<drvOld, staleEmit, watcher, smoothedSpeeds, docCount, authLog, drvSock, httpResp, now, assignActive, bus, updates, stream, rooms, inbox, drvConn,
                 drvData, drvOp, drvReply, stalePc, staleBuses, evLog, nSub,
                 writeLog, quietSince, snapLog>>

(* the .then callback: bus:status to the subscribing socket if a document  *)
(* was found                                                              *)
SnapshotEmit(p) ==
  /\ p \in DOMAIN subPend
  /\ subPend[p].phase = "emit"
  /\ LET pend == subPend[p]
         ev == Event("bus:status", pend.busId, pend.result.bus, pend.readSeq,
                     "snapshot")
     IN  /\ inbox' = IF pend.result.found
                     THEN [inbox EXCEPT ![p] = Append(@, ev)] ELSE inbox
         /\ snapLog' = Append(snapLog,
               [socket |-> p, busId |-> pend.busId, subAt |-> pend.at,
                readAt |-> pend.readAt, emitAt |-> now,
                found |-> pend.result.found,
                readOnline |-> pend.readOnline,
                member |-> BusRoom(pend.busId) \in rooms[p],
                at |-> IF pend.result.found THEN Len(inbox[p]) + 1 ELSE 0])
  /\ subPend' = DropPend(p)
  /\ UNCHANGED <<drvOld, staleEmit, watcher, smoothedSpeeds, docCount, authLog, drvSock, httpResp, now, assignActive, bus, updates, stream, rooms, drvConn,
                 drvData, drvOp, drvReply, stalePc, staleBuses, evLog, nSub,
                 writeLog, quietSince>>

(* subscribe:route: join, then route:buses with the online buses of the    *)
(* route (the store answering at once).                                    *)
SubscribeRoute(p, r) ==
  /\ p \notin DOMAIN subPend
  /\ nSub < MaxSubscribes
  /\ nSub' = nSub + 1
  /\ rooms' = [rooms EXCEPT ![p] = @ \cup {RouteRoom(r)}]
  /\ inbox' = [inbox EXCEPT ![p] =
       Append(@, RouteBuses(r, getBusesOnRoute(r)))]
  /\ UNCHANGED <<drvOld, staleEmit, watcher, smoothedSpeeds, docCount, authLog, drvSock, httpResp, now, assignActive, bus, updates, stream, subPend, drvConn,
                 drvData, drvOp, drvReply, stalePc, staleBuses, evLog,
                 writeLog, quietSince, snapLog>>

(* subscribe:route with the store round trip as steps of its own: the    *)
(* socket joins route:<routeId> and Bus.find is started,                 *)
SubscribeRouteJoin(p, r) ==
  /\ p \notin DOMAIN subPend
  /\ nSub < MaxSubscribes
  /\ nSub' = nSub + 1
  /\ rooms' = [rooms EXCEPT ![p] = @ \cup {RouteRoom(r)}]
  /\ subPend' = (p :> [routeId |-> r, at |-> now, phase |-> "routeRead",
                       buses |-> {}, store |-> <<>>, readAt |-> 0]) @@ subPend
  /\ UNCHANGED <<drvOld, staleEmit, watcher, smoothedSpeeds, docCount, authLog, drvSock, httpResp, now, assignActive, bus, updates,
                 stream, inbox, drvConn, drvData, drvOp, drvReply, stalePc,
                 staleBuses, evLog, writeLog, quietSince, snapLog>>

(* getBusesOnRoute is evaluated by the store,                            *)
RouteRead(p) ==
  /\ p \in DOMAIN subPend
  /\ subPend[p].phase = "routeRead"
  /\ subPend' = [subPend EXCEPT ![p] =
        [@ EXCEPT !.phase = "routeEmit",
                  !.buses = getBusesOnRoute(subPend[p].routeId),
                  !.store = bus,
                  !.readAt = now]]
  /\ UNCHANGED <<drvOld, staleEmit, watcher, smoothedSpeeds, docCount, authLog, drvSock, httpResp, now, assignActive, bus, updates,
                 stream, rooms, inbox, drvConn, drvData, drvOp, drvReply, stalePc,
                 staleBuses, evLog, nSub, writeLog, quietSince, snapLog>>

(* and the .then callback emits route:buses to the subscribing socket.   *)
RouteEmit(p) ==
  /\ p \in DOMAIN subPend
  /\ subPend[p].phase = "routeEmit"
  /\ inbox' = [inbox EXCEPT ![p] =
        Append(@, RouteBuses(subPend[p].routeId, subPend[p].buses))]
  /\ snapLog' = Append(snapLog,
        [socket |-> p, kind |-> "route", routeId |-> subPend[p].routeId,
         subAt |-> subPend[p].at, readAt |-> subPend[p].readAt, emitAt |-> now,
         store |-> subPend[p].store,
         member |-> RouteRoom(subPend[p].routeId) \in rooms[p],
         at |-> Len(inbox[p]) + 1])
  /\ subPend' = DropPend(p)
  /\ UNCHANGED <<drvOld, staleEmit, watcher, smoothedSpeeds, docCount, authLog, drvSock, httpResp, now, assignActive, bus, updates,
                 stream, rooms, drvConn, drvData, drvOp, drvReply, stalePc,
                 staleBuses, evLog, nSub, writeLog, quietSince>>

(* unsubscribe:bus: socket.leave, whatever the socket has pending; a     *)
(* leave of a room the socket is not in changes nothing                  *)
UnsubscribeBus(p, b) ==
  /\ BusRoom(b) \in rooms[p]
  /\ rooms' = [rooms EXCEPT ![p] = @ \ {BusRoom(b)}]
  /\ UNCHANGED <<drvOld, staleEmit, watcher, smoothedSpeeds, docCount, authLog, drvSock, httpResp, now, assignActive, bus, updates, stream, inbox, subPend,
                 drvConn, drvData, drvOp, drvReply, stalePc, staleBuses, evLog,
                 nSub, writeLog, quietSince, snapLog>>

UnsubscribeRoute(p, r) ==
  /\ RouteRoom(r) \in rooms[p]
  /\ rooms' = [rooms EXCEPT ![p] = @ \ {RouteRoom(r)}]
  /\ UNCHANGED <<drvOld, staleEmit, watcher, smoothedSpeeds, docCount, authLog, drvSock, httpResp, now, assignActive, bus, updates, stream, inbox, subPend,
                 drvConn, drvData, drvOp, drvReply, stalePc, staleBuses, evLog,
                 nSub, writeLog, quietSince, snapLog>>

(* socket disconnect: Socket.IO removes the socket from all its rooms *)
PassengerDisconnect(p) ==
  /\ p \notin DOMAIN subPend
  /\ rooms[p] /= {}
  /\ rooms' = [rooms EXCEPT ![p] = {}]
  /\ UNCHANGED <<drvOld, staleEmit, watcher, smoothedSpeeds, docCount, authLog, drvSock, httpResp, now, assignActive, bus, updates, stream, inbox, subPend,
                 drvConn, drvData, drvOp, drvReply, stalePc, staleBuses, evLog,
                 nSub, writeLog, quietSince, snapLog>>

(* ------------------------------------------------------------------ *)
(* Read API (controllers/busController: /buses/near, /buses/:busId,    *)
(* /buses)                                                             *)
(* ------------------------------------------------------------------ *)
NearLimit == 50
MaxRadius == 50000

(* The queries sent to /buses/near: <<lng, lat, r>>, r in metres.  Two    *)
(* are valid, the third has a radius the handler refuses.                 *)
NearQueries == {<<0, 9, 50>>, <<0, 0, 15>>, <<0, 0, 0>>}

(* The orders in which the elements of S can be enumerated *)
Orders(S) ==
  {f \in [1..Cardinality(S) -> S] : \A i, j \in 1..Cardinality(S) : f[i] = f[j] => i = j}

(* Bus.find({online: true, location: {$near: {$geometry, $maxDistance}}})  *)
(* .limit(50): the online buses with a location within the radius,        *)
(* nearest first; the store fixes no order among buses at one distance.   *)
nearFind(lng, lat, radius) ==
  LET D(b) == calculateDistance(lat, lng, bus[b].location[2], bus[b].location[1])
      S == {b \in DOMAIN bus :
              /\ bus[b].online
              /\ bus[b].location # NoLocation
              /\ D(b) <= radius * 1000}
  IN  {SubSeq(f, 1, Min(Len(f), NearLimit)) :
         f \in {g \in Orders(S) : \A i, j \in 1..Len(g) : i < j => D(g[i]) <= D(g[j])}}

(* Math.round((now - lastSeen) / (1000 * 60)) for lastSeen not after now *)
RoundMinutes(ms) == (ms + 30000) \div 60000

(* The lastSeen descriptor the three endpoints add to a bus: lastSeen is  *)
(* bus.lastUpdateAt || bus.lastOnlineAt, and a Date is truthy; the status *)
(* is chosen by lastSeenMinutes ? ... : 'unknown', and 0 is falsy.        *)
lastSeen(doc, t) ==
  LET timestamp == doc.lastUpdateAt
      minutesAgo == RoundMinutes(t - timestamp)
  IN  [timestamp |-> timestamp,
       minutesAgo |-> minutesAgo,
       status |-> IF minutesAgo = 0 THEN "unknown"
                  ELSE IF minutesAgo < 5 THEN "very_recent"
                  ELSE IF minutesAgo < 30 THEN "recent"
                  ELSE IF minutesAgo < 120 THEN "moderate"
                  ELSE "old"]

(* Math.round of a distance given in millimetres, in metres *)
RoundMetres(mm) == (mm + 500) \div 1000

(* busesWithDetails.sort((a, b) => a.distance - b.distance): a stable     *)
(* sort on the rounded distance alone.                                    *)
RECURSIVE sortByDistance(_)
sortByDistance(s) ==
  IF Len(s) <= 1 THEN s
  ELSE LET rest == sortByDistance(Tail(s))
           k == Cardinality({i \in 1..Len(rest) : rest[i].distance < Head(s).distance})
       IN  SubSeq(rest, 1, k) \o <<Head(s)>> \o SubSeq(rest, k + 1, Len(rest))

(* The responses getNearbyBuses can give to a query *)
getNearbyBuses(lng, lat, r) ==
  IF lng < -180 * 100000 \/ lng > 180 * 100000
     \/ lat < -90 * 100000 \/ lat > 90 * 100000
     \/ r <= 0 \/ r > MaxRadius
  THEN {[kind |-> "near", status |-> 400, query |-> <<lng, lat, r>>, buses |-> <<>>]}
  ELSE {[kind |-> "near", status |-> 200, query |-> <<lng, lat, r>>,
         buses |-> sortByDistance(
           [i \in 1..Len(f) |->
              [busId |-> f[i],
               location |-> bus[f[i]].location,
               lastUpdateAt |-> bus[f[i]].lastUpdateAt,
               lastOnlineAt |-> bus[f[i]].lastOnlineAt,
               lastSeen |-> lastSeen(bus[f[i]], now),
               distance |-> RoundMetres(calculateDistance(
                              lat, lng, bus[f[i]].location[2], bus[f[i]].location[1]))]])] :
          f \in nearFind(lng, lat, r)}

GetNearbyBuses(lng, lat, r) ==
  /\ httpResp' \in getNearbyBuses(lng, lat, r)
  /\ UNCHANGED <<drvOld, staleEmit, watcher, smoothedSpeeds, docCount, authLog, drvSock, now, assignActive, bus, updates, stream, rooms, inbox, subPend,
                 drvConn, drvData, drvOp, drvReply, stalePc, staleBuses, evLog,
                 nSub, writeLog, quietSince, snapLog>>

(* GET /buses/:busId: 404, or the bus with its state *)
getBusById(busId) ==
  IF busId \notin DOMAIN bus
  THEN [kind |-> "get", status |-> 404, busId |-> busId, online |-> FALSE]
  ELSE [kind |-> "get", status |-> 200, busId |-> busId, online |-> bus[busId].online,
        lastUpdateAt |-> bus[busId].lastUpdateAt,
        lastOnlineAt |-> bus[busId].lastOnlineAt,
        lastSeen |-> lastSeen(bus[busId], now)]

GetBusById(busId) ==
  /\ httpResp' = getBusById(busId)
  /\ UNCHANGED <<drvOld, staleEmit, watcher, smoothedSpeeds, docCount, authLog, drvSock, now, assignActive, bus, updates, stream,
                 rooms, inbox, subPend, drvConn, drvData, drvOp, drvReply, stalePc,
                 staleBuses, evLog, nSub, writeLog, quietSince, snapLog>>

ListLimit == 100

(* GET /buses?online=: the buses matching the filter ("" for none), most  *)
(* recently updated first, at most the limit.                            *)
getAllBuses(online) ==
  LET S == {b \in DOMAIN bus : online = "" \/ bus[b].online = (online = "true")}
  IN  {[kind |-> "list", status |-> 200, online |-> online,
        buses |-> SubSeq(f, 1, Min(Len(f), ListLimit))] :
         f \in {g \in Orders(S) :
                  \A i, j \in 1..Len(g) :
                     i < j => bus[g[i]].lastUpdateAt >= bus[g[j]].lastUpdateAt}}

GetAllBuses(online) ==
  /\ httpResp' \in getAllBuses(online)
  /\ UNCHANGED <<drvOld, staleEmit, watcher, smoothedSpeeds, docCount, authLog, drvSock, now, assignActive, bus, updates, stream,
                 rooms, inbox, subPend, drvConn, drvData, drvOp, drvReply, stalePc,
                 staleBuses, evLog, nSub, writeLog, quietSince, snapLog>>

(* ------------------------------------------------------------------ *)
(* ETAWorker (workers/etaWorker.ts): every 10 seconds                  *)
(* ------------------------------------------------------------------ *)
(* Route.stops, on the model's grid: RT1 with a terminus at the origin and *)
(* stops 20 and 41 units (22.2 and 45.6 m) north of it, RT2 with a single  *)
(* stop.                                                                   *)
RouteStops ==
  [r \in Routes |->
     IF r = "RT1"
     THEN << [stopId |-> "STOP001", location |-> <<0, 0>>],
             [stopId |-> "STOP002", location |-> <<0, 20>>],
             [stopId |-> "STOP003", location |-> <<0, 41>>] >>
     ELSE << [stopId |-> "STOP005", location |-> <<0, 0>>] >>]

(* Distance in millimetres from the bus to a stop (the worker's own        *)
(* haversine, the same formula as the throttle's).                         *)
stopDistance(doc, stop) ==
  calculateDistance(doc.location[2], doc.location[1],
                    stop.location[2], stop.location[1])

(* The loop over route.stops: the first stop at the least distance.        *)
closestStop(doc, stops) ==
  CHOOSE i \in 1..Len(stops) :
    /\ \A j \in 1..Len(stops) : stopDistance(doc, stops[i]) <= stopDistance(doc, stops[j])
    /\ \A j \in 1..(i - 1) : stopDistance(doc, stops[j]) > stopDistance(doc, stops[i])

(* getSmoothedSpeed, in thousandths of a km/h.  A missing entry and a      *)
(* stored 0 both fall back to the current speed (||).                      *)
newSmoothed(sm, busId, currentSpeed) ==
  LET stored == IF busId \in DOMAIN sm THEN sm[busId] ELSE 0
      currentSmoothed == IF stored # 0 THEN stored ELSE currentSpeed * 1000
  IN  (3 * (currentSpeed * 1000) + 7 * currentSmoothed) \div 10

(* the value getSmoothedSpeed returns: Math.max(1, newSmoothed) *)
getSmoothedSpeed(sm, busId, currentSpeed) ==
  IF newSmoothed(sm, busId, currentSpeed) < 1000 THEN 1000
  ELSE newSmoothed(sm, busId, currentSpeed)

(* Math.round(minDistance / 1000 / (smoothedSpeed / 60)) for minDistance   *)
(* in millimetres and smoothedSpeed in thousandths of a km/h: the quotient *)
(* is 3 * mm / (50 * speed) minutes, rounded half up.                      *)
etaMinutes(mm, smoothedSpeed) ==
  (6 * mm + 50 * smoothedSpeed) \div (100 * smoothedSpeed)

(* Math.round((closestStop.index / (route.stops.length - 1)) * 100).  On a *)
(* route with a single stop the quotient is 0 / 0: the result is NaN.      *)
routeProgress(index, length) ==
  IF length = 1 THEN [isNaN |-> TRUE, value |-> 0]
  ELSE [isNaN |-> FALSE,
        value |-> (200 * index + (length - 1)) \div (2 * (length - 1))]

(* calculateBusETA: the ETAUpdate for the bus, for the smoothed speeds sm  *)
(* before the run.                                                         *)
EtaUpdate(busId, sm) ==
  LET doc == bus[busId]
      stops == RouteStops[doc.routeId]
      i == closestStop(doc, stops)
      minDistance == stopDistance(doc, stops[i])
      smoothedSpeed == getSmoothedSpeed(sm, busId, doc.speed)
      minutes == etaMinutes(minDistance, smoothedSpeed)
  IN  [ev |-> "eta:update", busId |-> busId, routeId |-> doc.routeId,
       nextStop |-> [stopId |-> stops[i].stopId,
                     distance |-> (minDistance + 500) \div 1000,
                     eta |-> IF minutes < 1 THEN 1 ELSE minutes],
       routeProgress |-> routeProgress(i - 1, Len(stops)),
       estimatedArrival |-> now + minutes * 60 * 1000,
       timestamp |-> now,
       minDistance |-> minDistance, smoothedSpeed |-> smoothedSpeed,
       closestIndex |-> i - 1, at |-> now, src |-> "eta"]

(* the emits of calculateETAs for the buses found, in the order found *)
RECURSIVE etaEmits(_, _)
etaEmits(inb, found) ==
  IF found = <<>> THEN inb
  ELSE LET b == Head(found)
           e == EtaUpdate(b, smoothedSpeeds)
       IN  etaEmits(Emit(Emit(inb, "/user", BusRoom(b), e),
                         "/user", RouteRoom(bus[b].routeId), e),
                    Tail(found))

(* A run of calculateETAs: Bus.find({online: true}), and for each bus     *)
(* with a location and a route an eta:update to its bus and route rooms,   *)
(* its smoothed speed stored.  One run per instant of the model's clock.   *)
EtaTick ==
  /\ \A p \in Passengers : \A i \in 1..Len(inbox[p]) :
        inbox[p][i].ev = "eta:update" => inbox[p][i].at # now
  /\ LET S == {b \in DOMAIN bus :
                 bus[b].online /\ bus[b].location # NoLocation
                 /\ bus[b].routeId # ""}
     IN  /\ \E f \in Orders(S) : inbox' = etaEmits(inbox, f)
         /\ smoothedSpeeds' =
              [b \in DOMAIN smoothedSpeeds \cup S |->
                 IF b \in S THEN newSmoothed(smoothedSpeeds, b, bus[b].speed)
                 ELSE smoothedSpeeds[b]]
  /\ UNCHANGED <<drvOld, staleEmit, watcher, docCount, authLog, drvSock, httpResp, now, assignActive, bus, updates,
                 stream, rooms, subPend, drvConn, drvData, drvOp, drvReply, stalePc,
                 staleBuses, evLog, nSub, writeLog, quietSince, snapLog>>

(* ------------------------------------------------------------------ *)
(* Clock and StaleMonitorWorker (workers/staleMonitor.ts)              *)
(* ------------------------------------------------------------------ *)
TickInterval == 60000
StaleWindow == 60000

NextTick == ((now \div TickInterval) + 1) * TickInterval

(* Time passes.  The cron job ('* * * * *') fires at every multiple of a   *)
(* minute, and a run of the worker takes less than the clock's resolution: *)
(* time does not pass while one is due or in flight.                       *)
Elapse ==
  /\ stalePc = "idle"
  /\ Min(now + ClockStep, NextTick) <= MaxTime
  /\ now' = Min(now + ClockStep, NextTick)
  /\ stalePc' = IF now' = NextTick THEN "due" ELSE "idle"
  /\ UNCHANGED <<drvOld, staleEmit, watcher, smoothedSpeeds, docCount, authLog, drvSock, httpResp, assignActive, bus, updates, stream, rooms, inbox, subPend,
                 drvConn, drvData, drvOp, drvReply, staleBuses, evLog, nSub,
                 writeLog, quietSince, snapLog>>

(* Time passes between driver events: the two store round trips of a       *)
(* driver handler take less than the clock's resolution.                   *)
Advance ==
  /\ DOMAIN drvOp = {}
  /\ Elapse

(* Time passes before the first tick of the cron job, while a             *)
(* subscribe:bus waits for its store read: the change stream has          *)
(* delivered and the callback of a completed read has run.                *)
AdvanceQuiet ==
  /\ now + ClockStep < TickInterval
  /\ stream = <<>>
  /\ \A p \in DOMAIN subPend : subPend[p].phase = "read"
  /\ Advance

(* Time passes up to the next tick of the cron job while the server is   *)
(* idle: no handler in flight, no change event or snapshot pending.       *)
AdvanceToTick ==
  /\ DOMAIN drvOp = {}
  /\ DOMAIN subPend = {}
  /\ stream = <<>>
  /\ stalePc = "idle"
  /\ NextTick <= MaxTime
  /\ now' = NextTick
  /\ stalePc' = "due"
  /\ UNCHANGED <<drvOld, staleEmit, watcher, smoothedSpeeds, docCount, authLog, drvSock, httpResp, assignActive, bus, updates, stream,
                 rooms, inbox, subPend, drvConn, drvData, drvOp, drvReply,
                 staleBuses, evLog, nSub, writeLog, quietSince, snapLog>>

(* the find with a threshold one tick too old *)
findStale_Late(t) ==
  {[busId |-> b, lastUpdateAt |-> bus[b].lastUpdateAt] :
     b \in {x \in DOMAIN bus :
              bus[x].online /\ bus[x].lastUpdateAt < t - StaleWindow - TickInterval}}

(* checkStaleBuses, the find: online buses with lastUpdateAt < now - 60 s  *)
findStale(t) ==
  {[busId |-> b, lastUpdateAt |-> bus[b].lastUpdateAt] :
     b \in {x \in DOMAIN bus : bus[x].online /\ bus[x].lastUpdateAt < t - StaleWindow}}

StaleScan ==
  /\ stalePc = "due"
  /\ staleBuses' = findStale(now)
  /\ stalePc' = IF staleBuses' = {} THEN "idle" ELSE "run"
  /\ UNCHANGED <<drvOld, staleEmit, watcher, smoothedSpeeds, docCount, authLog, drvSock, httpResp, now, assignActive, bus, updates, stream, rooms, inbox, subPend,
                 drvConn, drvData, drvOp, drvReply, evLog, nSub, writeLog,
                 quietSince, snapLog>>

(* an update that also stamps lastUpdateAt *)
staleBusData_Touch(found) ==
  [online |-> FALSE, lastOnlineAt |-> found.lastUpdateAt, lastUpdateAt |-> now,
   status |-> "inactive"]

(* update of the stale worker for one bus it found *)
staleBusData(found) ==
  [online |-> FALSE, lastOnlineAt |-> found.lastUpdateAt, status |-> "inactive"]

(* The demotion of bus b with nothing written between the worker's find    *)
(* and its update: the collection afterwards.                              *)
staleDemotion(coll, b) ==
  findOneAndUpdate(coll, b,
                   staleBusData([busId |-> b, lastUpdateAt |-> coll[b].lastUpdateAt]),
                   now)

(* checkStaleBuses, one iteration of the loop: the document is updated and *)
(* bus:status is emitted to the bus room, the route room and the driver.   *)
StaleUpdate(found) ==
  /\ stalePc = "run"
  /\ found \in staleBuses
  /\ LET b == found.busId
         coll == findOneAndUpdate(bus, b, staleBusData(found), now)
         updatedBus == coll[b]
         seq == Len(writeLog) + 1
         statusPayload ==
           [status |-> "inactive", reason |-> "stale_timeout"]
           @@ [Event("bus:status", b, updatedBus, seq, "stale") EXCEPT !.online = FALSE]
     IN  /\ bus' = coll
         /\ stream' = Append(stream, ChangeEvent(seq, b, updatedBus))
         /\ writeLog' = Append(writeLog,
               WriteRecord("stale", b, updatedBus, FALSE,
                           {p \in Passengers :
                              \/ BusRoom(b) \in rooms[p]
                              \/ RouteRoom(updatedBus.routeId) \in rooms[p]},
                           0))
         /\ inbox' = Emit(Emit(Emit(inbox, "/user", BusRoom(b), statusPayload),
                               "/user", RouteRoom(updatedBus.routeId), statusPayload),
                          "/driver", DriverRoom(updatedBus.driverId), statusPayload)
  /\ staleBuses' = staleBuses \ {found}
  /\ stalePc' = IF staleBuses' = {} THEN "idle" ELSE "run"
  /\ UNCHANGED <<drvOld, staleEmit, watcher, smoothedSpeeds, docCount, authLog, drvSock, httpResp, now, assignActive, updates, rooms, subPend, drvConn, drvData,
                 drvOp, drvReply, evLog, nSub, quietSince, snapLog>>

(* ------------------------------------------------------------------ *)
(* Specifications                                                      *)
(* ------------------------------------------------------------------ *)
(* The broadcast pipeline: driver events, the change stream, the clock    *)
(* and the stale worker, with the passengers already subscribed.          *)
Next ==
  \/ \E t \in DriverTargets, online \in BOOLEAN : DriverToggle(t[1], t[2], online)
  \/ \E t \in DriverTargets, m \in Samples :
        DriverMove(t[1], t[2], m[1], m[2], m[3], m[4], m[5])
  \/ \E d \in Drivers : DriverFind(d)
  \/ \E d \in Drivers : DriverWrite(d)
  \/ HandleChange
  \/ Advance
  \/ StaleScan
  \/ \E found \in staleBuses : StaleUpdate(found)

Spec == Init /\ [][Next]_vars

(* Assignment gating: the driver handlers of BUS001 while assignments are  *)
(* deactivated and shifts end, also between a handler's check and its      *)
(* write.                                                                  *)
NextAssign ==
  \/ \E t \in GatedTargets, online \in BOOLEAN : DriverToggle(t[1], t[2], online)
  \/ \E t \in GatedTargets :
        DriverMove(t[1], t[2], GatedSample[1], GatedSample[2], GatedSample[3],
                   GatedSample[4], GatedSample[5])
  \/ \E d \in Drivers : DriverFind(d)
  \/ \E d \in Drivers : DriverWrite(d)
  \/ HandleChange
  \/ \E a \in GatedAssignments : deactivateAssignment(a)
  \/ Elapse
  \/ StaleScan
  \/ \E found \in staleBuses : StaleUpdate(found)

SpecAssign == Init /\ [][NextAssign]_vars

(* Subscriptions before the first tick of the stale worker: passengers     *)
(* subscribe to buses while d1 toggles BUS001; BUS002 has no record.       *)
InitSubscribe ==
  /\ InitStore
  /\ drvConn = [d \in Drivers |-> TRUE]
  /\ rooms = [s \in Sockets |-> IF s \in Drivers THEN {DriverRoom(s)} ELSE {}]
  /\ inbox = [s \in Sockets |-> <<>>]

NextSubscribe ==
  \/ \E p \in Passengers, b \in Buses : SubscribeBus(p, b)
  \/ \E p \in Passengers : SnapshotRead(p)
  \/ \E p \in Passengers : SnapshotEmit(p)
  \/ \E online \in BOOLEAN : DriverToggle("d1", "BUS001", online)
  \/ \E d \in Drivers : DriverFind(d)
  \/ \E d \in Drivers : DriverWrite(d)
  \/ HandleChange
  \/ AdvanceQuiet

SpecSubscribe == InitSubscribe /\ [][NextSubscribe]_vars

(* The throttle: samples around its two thresholds, with evictions by      *)
(* disconnect.  The change events of the writes stay queued: the throttle  *)
(* does not depend on their delivery.                                      *)
NextThrottle ==
  \/ \E d \in Drivers, m \in ThrottleSamples :
        DriverMove(d, "BUS001", m[1], m[2], m[3], m[4], m[5])
  \/ \E d \in Drivers : DriverFind(d)
  \/ \E d \in Drivers : DriverWrite(d)
  \/ \E d \in Drivers : DriverDisconnect(d)
  \/ \E d \in Drivers : DriverConnect(d)

SpecThrottle == Init /\ [][NextThrottle]_vars

(* The read API beside the writers: drivers place the buses, go offline   *)
(* or fall stale, while /buses/near is queried.  The change events of the *)
(* writes stay queued: the reads go to the store.                         *)
ReadSamples == {<<0, 0, 40, 90, 0>>, <<0, 18, 40, 90, 3000>>}

NextRead ==
  \/ \E t \in DriverTargets, m \in ReadSamples :
        DriverMove(t[1], t[2], m[1], m[2], m[3], m[4], m[5])
  \/ \E t \in DriverTargets : DriverToggle(t[1], t[2], FALSE)
  \/ \E d \in Drivers : DriverFind(d)
  \/ \E d \in Drivers : DriverWrite(d)
  \/ Advance
  \/ StaleScan
  \/ \E found \in staleBuses : StaleUpdate(found)
  \/ \E q \in NearQueries : GetNearbyBuses(q[1], q[2], q[3])

SpecRead == Init /\ [][NextRead]_vars

(* The handshake gate: nobody is connected at first; clients connect    *)
(* with good and bad tokens, and connected drivers send their events.    *)
InitAuth ==
  /\ InitStore
  /\ drvConn = [d \in Drivers |-> FALSE]
  /\ rooms = [s \in Sockets |-> {}]
  /\ inbox = [s \in Sockets |-> <<>>]

NextAuth ==
  \/ \E d \in Drivers : \E token \in Tokens(d) : DriverHandshake(d, token)
  \/ \E t \in GatedTargets, online \in BOOLEAN : DriverToggle(t[1], t[2], online)
  \/ \E t \in GatedTargets :
        DriverMove(t[1], t[2], GatedSample[1], GatedSample[2], GatedSample[3],
                   GatedSample[4], GatedSample[5])
  \/ \E d \in Drivers : DriverFind(d)
  \/ \E d \in Drivers : DriverWrite(d)
  \/ \E d \in Drivers : DriverDisconnect(d)
  \/ Advance

SpecAuth == InitAuth /\ [][NextAuth]_vars

(* Disconnects: drivers toggle and move their buses (d1 drives BUS001     *)
(* up to the first minute and BUS002 from then on) and disconnect.  A     *)
(* store round trip that has started completes.                           *)
NextDisconnect ==
  \/ \E t \in DriverTargets : DriverToggle(t[1], t[2], TRUE)
  \/ \E t \in DriverTargets :
        DriverMove(t[1], t[2], GatedSample[1], GatedSample[2], GatedSample[3],
                   GatedSample[4], GatedSample[5])
  \/ \E d \in Drivers : DriverFind(d)
  \/ \E d \in Drivers : DriverWrite(d)
  \/ \E d \in Drivers : DriverDisconnect(d)
  \/ Advance
  \/ StaleScan
  \/ \E found \in staleBuses : StaleUpdate(found)

SpecDisconnect ==
  /\ Init
  /\ [][NextDisconnect]_vars
  /\ \A d \in Drivers : WF_vars(DriverFind(d)) /\ WF_vars(DriverWrite(d))

(* The timestamps of a write: drivers toggle and move BUS001, and the     *)
(* clock may advance by a millisecond while a busData is built.           *)
NextClock ==
  \/ \E t \in GatedTargets, online \in BOOLEAN : DriverToggle(t[1], t[2], online)
  \/ \E t \in GatedTargets, m \in ReadSamples :
        DriverMove(t[1], t[2], m[1], m[2], m[3], m[4], m[5])
  \/ \E d \in Drivers : DriverFind(d)
  \/ \E d \in Drivers : DriverWrite(d)
  \/ \E d \in Drivers : DriverWriteTick(d)
  \/ Advance
  \/ StaleScan
  \/ \E found \in staleBuses : StaleUpdate(found)

SpecClock == Init /\ [][NextClock]_vars

(* The range checks: samples with each field at and beyond its bounds    *)
(* (coordinates in units of 1e-5 degree), all taken at the same instant,  *)
(* so that the throttle lets the first sample of each driver through.     *)
RangeSamples ==
  {<<0, 0, 40, 360, 0>>, <<0, 18, 200, 0, 0>>, <<0, 18, 40, 361, 0>>,
   <<0, 18, 40, -1, 0>>, <<0, 18, 201, 90, 0>>, <<0, 18, -1, 90, 0>>,
   <<18000001, 18, 40, 90, 0>>, <<0, -9000001, 40, 90, 0>>,
   <<-18000000, 9000000, 0, 359, 0>>}

NextRange ==
  \/ \E t \in GatedTargets, m \in RangeSamples :
        DriverMove(t[1], t[2], m[1], m[2], m[3], m[4], m[5])
  \/ \E d \in Drivers : DriverFind(d)
  \/ \E d \in Drivers : DriverWrite(d)
  \/ Advance
  \/ StaleScan
  \/ \E found \in staleBuses : StaleUpdate(found)

SpecRange == Init /\ [][NextRange]_vars

(* Route subscriptions: passenger p1 subscribes to routes while the       *)
(* drivers toggle their buses around the handover at 60 s, when BUS001   *)
(* can be on RT1 (d1) or RT2 (d2) and BUS002 on RT1.                      *)
NextRoute ==
  \/ \E r \in Routes : SubscribeRouteJoin("p1", r)
  \/ RouteRead("p1")
  \/ RouteEmit("p1")
  \/ \E t \in DriverTargets, online \in BOOLEAN : DriverToggle(t[1], t[2], online)
  \/ \E d \in Drivers : DriverFind(d)
  \/ \E d \in Drivers : DriverWrite(d)
  \/ Advance

SpecRoute == InitSubscribe /\ [][NextRoute]_vars

(* Unsubscribes: p1, in bus:BUS001 and route:RT1, and p2, in route:RT1,   *)
(* beside d1 toggling BUS001; p1 leaves and rejoins its rooms, also while *)
(* the snapshot of a subscribe:bus is pending.                            *)
NextUnsubscribe ==
  \/ UnsubscribeBus("p1", "BUS001")
  \/ UnsubscribeRoute("p1", "RT1")
  \/ SubscribeBus("p1", "BUS001")
  \/ SnapshotRead("p1")
  \/ SnapshotEmit("p1")
  \/ \E online \in BOOLEAN : DriverToggle("d1", "BUS001", online)
  \/ \E d \in Drivers : DriverFind(d)
  \/ \E d \in Drivers : DriverWrite(d)
  \/ HandleChange

SpecUnsubscribe == Init /\ [][NextUnsubscribe]_vars

(* The lastSeen descriptor: the server has started on a store that holds  *)
(* BUS001, last written SeenAges ago (around half a minute and 4.5, 29.5   *)
(* and 119.5 minutes), with lastOnlineAt at, one millisecond after or one  *)
(* second before lastUpdateAt; the read API is queried.                    *)
SeenAges == {0, 29999, 30000, 269999, 270000, 1769999, 1770000, 7169999, 7170000}
SeenStamps == {<<1000, 1000>>, <<1000, 1001>>, <<1000, 0>>}

InitSeen ==
  /\ \E age \in SeenAges, st \in SeenStamps, online \in BOOLEAN :
       /\ now = st[1] + age
       /\ bus = ("BUS001" :>
                  [BusDefaults(0) EXCEPT !.routeId = "RT1", !.driverId = "d1",
                                         !.online = online, !.location = <<0, 0>>,
                                         !.lastUpdateAt = st[1],
                                         !.lastOnlineAt = st[2]])
  /\ docCount = [b \in Buses |-> IF b = "BUS001" THEN 1 ELSE 0]
  /\ smoothedSpeeds = <<>>
  /\ watcher = WatcherStarted
  /\ staleEmit = <<>>
  /\ drvOld = <<>>
  /\ assignActive = [a \in AssignIds |-> TRUE]
  /\ updates = <<>>
  /\ stream = <<>>
  /\ subPend = <<>>
  /\ drvData = [d \in Drivers |-> NoData]
  /\ drvOp = <<>>
  /\ drvReply = [d \in Drivers |-> <<>>]
  /\ stalePc = "idle"
  /\ staleBuses = {}
  /\ evLog = <<>>
  /\ nSub = 0
  /\ writeLog = <<>>
  /\ quietSince = [b \in Buses |-> 0]
  /\ snapLog = <<>>
  /\ httpResp = [kind |-> "none"]
  /\ authLog = <<>>
  /\ drvSock = [d \in Drivers |-> 0]
  /\ drvConn = [d \in Drivers |-> FALSE]
  /\ rooms = [s \in Sockets |-> {}]
  /\ inbox = [s \in Sockets |-> <<>>]

NextSeen ==
  \/ GetBusById("BUS001")
  \/ GetNearbyBuses(0, 9, 50)
  \/ \E online \in {"", "true"} : GetAllBuses(online)

SpecSeen == InitSeen /\ [][NextSeen]_vars

(* One trip: a driver sends up to three of the samples of ScenarioSamples,  *)
(* in any order, at one instant of the server's clock; the writes are      *)
(* delivered by the change stream.                                         *)
NextScenario ==
  \/ \E d \in Drivers, m \in ScenarioSamples :
        DriverMoveWithin(ScenarioEvents, d, "BUS001", m[1], m[2], m[3], m[4], m[5])
  \/ \E d \in Drivers : DriverFind(d)
  \/ \E d \in Drivers : DriverWrite(d)
  \/ HandleChange

SpecScenario == Init /\ [][NextScenario]_vars

(* Every operation that touches the buses collection: the driver handlers  *)
(* with the two steps of their upsert (d1 and d2 both hold BUS001 at the   *)
(* handover at 60 s), the stale worker and the change stream; and, on the  *)
(* store the drivers have left at the last instant of the clock, passenger *)
(* p1, the ETA worker and the read API, beside the stale worker.           *)
FrameQueries == {<<0, 9, 50>>}

Quiet ==
  /\ Len(evLog) = MaxDriverEvents
  /\ DOMAIN drvOp = {}
  /\ stream = <<>>
  /\ \A d \in Drivers : ~drvConn[d]
  /\ now = MaxTime

NextFrame ==
  \/ \E t \in GatedTargets :
        DriverMove(t[1], t[2], GatedSample[1], GatedSample[2], GatedSample[3],
                   GatedSample[4], GatedSample[5])
  \/ \E d \in Drivers : DriverFind(d)
  \/ \E d \in Drivers : UpsertMatch(d)
  \/ \E d \in Drivers : DriverWrite(d)
  \/ \E d \in Drivers : DriverStoreDuplicate(d)
  \/ \E d \in Drivers : DriverDisconnect(d)
  \/ AdvanceToTick
  \/ StaleScan
  \/ \E found \in staleBuses : StaleUpdate(found)
  \/ HandleChange
  \/ Quiet /\ SubscribeBus("p1", "BUS001")
  \/ SnapshotRead("p1")
  \/ SnapshotEmit("p1")
  \/ Quiet /\ SubscribeRoute("p1", "RT1")
  \/ Quiet /\ "p1" \notin DOMAIN subPend /\ UnsubscribeBus("p1", "BUS001")
  \/ Quiet /\ "p1" \notin DOMAIN subPend /\ UnsubscribeRoute("p1", "RT1")
  \/ Quiet /\ PassengerDisconnect("p1")
  \/ Quiet /\ EtaTick
  \/ Quiet /\ (\E q \in FrameQueries : GetNearbyBuses(q[1], q[2], q[3]))
  \/ Quiet /\ GetBusById("BUS001")
  \/ Quiet /\ GetAllBuses("true")

SpecFrame == Init /\ [][NextFrame]_vars

(* ------------------------------------------------------------------ *)
(* Properties of the broadcast pipeline                                *)
(* ------------------------------------------------------------------ *)
(* The events of a socket's inbox that announce a store mutation *)
Announces(e) == e.ev /= "route:buses" /\ e.src /= "snapshot"

(* C1 (as stated): a bus that is online and has had no accepted sample    *)
(* since quietSince is demoted within staleWindow + tickInterval, whatever*)
(* toggles are interleaved.                                               *)
C1_DemotedWithoutSample ==
  \A b \in DOMAIN bus :
    bus[b].online => now <= quietSince[b] + StaleWindow + TickInterval

(* C1 (amended): a bus that is online has had a write to lastUpdateAt (a   *)
(* sample or a toggle) within the last staleWindow + tickInterval, and    *)
(* every demotion sent bus:status{online: false} to the sockets that were *)
(* in the bus or route room.                                              *)
C1_DemotedWithoutWrite ==
  /\ \A b \in DOMAIN bus :
       bus[b].online => now <= bus[b].lastUpdateAt + StaleWindow + TickInterval
  /\ \A k \in 1..Len(writeLog) :
       writeLog[k].kind = "stale" =>
         \A p \in writeLog[k].listeners :
           \E i \in 1..Len(inbox[p]) :
             /\ inbox[p][i].ev = "bus:status"
             /\ inbox[p][i].src = "stale"
             /\ inbox[p][i].seq = k
             /\ inbox[p][i].busId = writeLog[k].busId
             /\ inbox[p][i].online = FALSE

(* a bus was demoted exactly staleWindow + tickInterval after its last    *)
(* write and a subscriber was told                                        *)
C1_Witness ==
  \E k \in 1..Len(writeLog) :
    /\ writeLog[k].kind = "stale"
    /\ writeLog[k].listeners /= {}
    /\ writeLog[k].at = bus[writeLog[k].busId].lastUpdateAt + StaleWindow + TickInterval
    /\ ~bus[writeLog[k].busId].online

(* some event of inb announces mutation seq of busId or a later one *)
HasEventFrom(inb, busId, seq) ==
  \E i \in 1..Len(inb) :
    Announces(inb[i]) /\ inb[i].busId = busId /\ inb[i].seq >= seq

C5_PerBusOrder ==
  \A s \in Sockets :
    \A i, j \in 1..Len(inbox[s]) :
      (i < j /\ Announces(inbox[s][i]) /\ Announces(inbox[s][j])
         /\ inbox[s][i].busId = inbox[s][j].busId)
      => inbox[s][i].seq <= inbox[s][j].seq

(* C6: no socket gets two events for the same store mutation. *)
C6_AtMostOnce ==
  \A s \in Sockets :
    \A i, j \in 1..Len(inbox[s]) :
      (i < j /\ Announces(inbox[s][i]) /\ Announces(inbox[s][j]))
      => inbox[s][i].seq /= inbox[s][j].seq

(* the change events up to seq have been handled *)
Handled(seq) == \A i \in 1..Len(stream) : stream[i].seq > seq

(* C7: once the change of an accepted toggle has been handled, every      *)
(* passenger that was in bus:B when the toggle arrived has a bus:status   *)
(* for B that carries the toggle's online value (or is later).            *)
C7_StatusOnToggle ==
  \A k \in 1..Len(writeLog) :
    (writeLog[k].kind = "toggle" /\ Handled(k)) =>
      \A p \in writeLog[k].listeners :
        p \notin DOMAIN subPend =>
          \E i \in 1..Len(inbox[p]) :
            /\ inbox[p][i].ev = "bus:status"
            /\ inbox[p][i].busId = writeLog[k].busId
            /\ inbox[p][i].seq >= k
            /\ inbox[p][i].seq = k => inbox[p][i].online = writeLog[k].online

(* ------------------------------------------------------------------ *)
(* Properties of assignment gating                                     *)
(* ------------------------------------------------------------------ *)
(* the bus:update events delivered to some socket *)
BusUpdates ==
  {e \in UNION {{inbox[s][i] : i \in 1..Len(inbox[s])} : s \in Sockets} :
     e.ev = "bus:update"}

(* C3 (as stated): every bus:update broadcast announces a write made while *)
(* an assignment of the written (driverId, busId) was active and covered   *)
(* the instant of the write, whatever caused the write.                    *)
C3_WriteCovered ==
  \A e \in BusUpdates : writeLog[e.seq].covered

(* C3 (amended): every bus:update broadcast that a driver toggle or sample *)
(* caused announces a write whose handler had found, at its check, an      *)
(* active assignment of (driverId, busId) covering the instant of the      *)
(* check.                                                                  *)
C3_CheckCovered ==
  \A e \in BusUpdates :
    writeLog[e.seq].kind \in {"toggle", "sample"} => writeLog[e.seq].checked

(* a broadcast of a write that passed the check but was not covered any    *)
(* more when it was made, and a broadcast of a staleness write             *)
C3_Witness ==
  /\ \E e \in BusUpdates :
       /\ writeLog[e.seq].kind \in {"toggle", "sample"}
       /\ writeLog[e.seq].checked
       /\ ~writeLog[e.seq].covered
  /\ \E e \in BusUpdates : writeLog[e.seq].kind = "stale"

(* the handler of driver event k has returned *)
Done(k) == \A d \in DOMAIN drvOp : drvOp[d].evt /= k

(* the replies to driver event k *)
RepliesTo(k) ==
  LET r == drvReply[evLog[k].driverId]
  IN  {r[i] : i \in {j \in 1..Len(r) : r[j].evt = k}}

WritesOf(k) == {j \in 1..Len(writeLog) : writeLog[j].evt = k}

(* the driver:move events received without a current assignment *)
UnassignedMoves ==
  {k \in 1..Len(evLog) : evLog[k].kind = "move" /\ ~evLog[k].covered}

AcceptedBefore(d, j) ==
  {i \in 1..(j - 1) :
     evLog[i].kind = "move" /\ evLog[i].driverId = d /\ ~evLog[i].throttled}

(* C4: an accepted sample that is not the first one since the process      *)
(* started or the driver was evicted is at least 2000 ms later than the    *)
(* previous accepted sample of the driver and at least 20 m away from it.  *)
C4_ThrottleMonotone ==
  \A j \in 1..Len(evLog) :
    (evLog[j].kind = "move" /\ ~evLog[j].throttled /\ ~evLog[j].fresh) =>
      \E i \in AcceptedBefore(evLog[j].driverId, j) :
        /\ \A h \in AcceptedBefore(evLog[j].driverId, j) : h <= i
        /\ evLog[j].ts - evLog[i].ts >= MIN_TIME_INTERVAL
        /\ evLog[j].ts > evLog[i].ts
        /\ calculateDistance(evLog[i].lat, evLog[i].lng, evLog[j].lat, evLog[j].lng)
             >= MIN_DISTANCE * 1000

(* a second sample was accepted exactly 2000 ms after the first, and the   *)
(* throttle holds it                                                       *)
C4_Witness ==
  \E j \in 1..Len(evLog) :
    /\ evLog[j].kind = "move" /\ ~evLog[j].throttled /\ ~evLog[j].fresh
    /\ \E i \in AcceptedBefore(evLog[j].driverId, j) :
         evLog[j].ts - evLog[i].ts = MIN_TIME_INTERVAL
    /\ evLog[j].driverId \in DOMAIN updates
    /\ updates[evLog[j].driverId].timestamp = evLog[j].ts

(* ------------------------------------------------------------------ *)
(* Properties of subscribe:bus                                         *)
(* ------------------------------------------------------------------ *)
(* the bus:status snapshots in the inbox of socket s *)
Snapshots(s) ==
  {i \in 1..Len(inbox[s]) :
     inbox[s][i].ev = "bus:status" /\ inbox[s][i].src = "snapshot"}

C11_StaleIdempotent ==
  \A b \in DOMAIN bus :
    staleDemotion(staleDemotion(bus, b), b)[b] = staleDemotion(bus, b)[b]

(* the worker has demoted a bus that has a location, a second demotion     *)
(* would leave the record as it is, and another bus is online, which a     *)
(* demotion would change                                                   *)
C11_Witness ==
  /\ \E b \in DOMAIN bus :
       /\ LastSeq(b) > 0
       /\ writeLog[LastSeq(b)].kind = "stale"
       /\ bus[b].location /= NoLocation
       /\ staleDemotion(bus, b)[b] = bus[b]
  /\ \E b \in DOMAIN bus : bus[b].online /\ staleDemotion(bus, b)[b] /= bus[b]

(* the fields of a Bus record that a demotion leaves alone *)
Kept(doc) ==
  [lastUpdateAt |-> doc.lastUpdateAt, location |-> doc.location,
   speed |-> doc.speed, heading |-> doc.heading, routeId |-> doc.routeId,
   driverId |-> doc.driverId]

(* the step is a write of the stale worker *)
StaleWrites ==
  /\ Len(writeLog') = Len(writeLog) + 1
  /\ writeLog'[Len(writeLog')].kind = "stale"

(* C12: a demotion of bus B sets online = false, status = inactive and     *)
(* lastOnlineAt = B.lastUpdateAt, keeps the other fields, and emits        *)
(* bus:status{online: false, lastOnlineAt = that lastUpdateAt, reason =    *)
(* stale_timeout} to the sockets in bus:B and route:<B.routeId>.           *)
C12_DemotionEffect ==
  [][StaleWrites =>
       LET b == writeLog'[Len(writeLog')].busId
       IN  /\ ~bus'[b].online
           /\ bus'[b].status = "inactive"
           /\ bus'[b].lastOnlineAt = bus[b].lastUpdateAt
           /\ Kept(bus'[b]) = Kept(bus[b])
           /\ \A p \in Passengers :
                (BusRoom(b) \in rooms[p] \/ RouteRoom(bus[b].routeId) \in rooms[p])
                => /\ Len(inbox'[p]) > Len(inbox[p])
                   /\ \A i \in (Len(inbox[p]) + 1)..Len(inbox'[p]) :
                        /\ inbox'[p][i].ev = "bus:status"
                        /\ inbox'[p][i].busId = b
                        /\ inbox'[p][i].online = FALSE
                        /\ inbox'[p][i].lastOnlineAt = bus[b].lastUpdateAt
                        /\ inbox'[p][i].reason = "stale_timeout"]_vars

(* ------------------------------------------------------------------ *)
(* Properties of the read API                                          *)
(* ------------------------------------------------------------------ *)
(* The bus ids in lexicographic order *)
BusIdOrder == <<"BUS001", "BUS002">>
BusRank(b) == CHOOSE i \in 1..Len(BusIdOrder) : BusIdOrder[i] = b

(* a step in which /buses/near answers a valid query *)
NearAnswer ==
  /\ httpResp' # httpResp
  /\ httpResp'.kind = "near"
  /\ httpResp'.status = 200

(* the distance of the stored location of a bus from the centre of a query *)
FromCentre(q, b) == calculateDistance(q[2], q[1], bus[b].location[2], bus[b].location[1])

(* Every answer of /buses/near is ordered by distance, holds online buses *)
(* within the radius only, and at most 50 of them.                        *)
NearSortedOnlineWithin(resp) ==
  LET bs == resp.buses IN
  /\ \A i, j \in 1..Len(bs) : i < j => bs[i].distance <= bs[j].distance
  /\ \A i \in 1..Len(bs) :
       /\ bs[i].busId \in DOMAIN bus
       /\ bus[bs[i].busId].online
       /\ FromCentre(resp.query, bs[i].busId) <= resp.query[3] * 1000
  /\ Len(bs) <= NearLimit

(* C13: in every /buses/near result the distances are non-decreasing,     *)
(* buses at equal distance are ordered lexicographically by busId, every  *)
(* returned bus is online and within the requested radius, and at most 50 *)
(* buses are returned.                                                    *)
C13_NearOrdering ==
  [][NearAnswer =>
       /\ NearSortedOnlineWithin(httpResp')
       /\ \A i, j \in 1..Len(httpResp'.buses) :
            (i < j /\ httpResp'.buses[i].distance = httpResp'.buses[j].distance)
              => BusRank(httpResp'.buses[i].busId) < BusRank(httpResp'.buses[j].busId)]_vars

(* C13 without the order among equal distances: the part the handler      *)
(* keeps.                                                                 *)
C13_NearWithoutTieBreak ==
  [][NearAnswer => NearSortedOnlineWithin(httpResp')]_vars

(* Two buses at the same distance have been returned, BUS002 first *)
C13_Witness ==
  /\ httpResp.kind = "near"
  /\ httpResp.status = 200
  /\ Len(httpResp.buses) = 2
  /\ httpResp.buses[1].distance = httpResp.buses[2].distance
  /\ httpResp.buses[1].busId = "BUS002"

(* ------------------------------------------------------------------ *)
(* Properties of the handshake gate                                    *)
(* ------------------------------------------------------------------ *)
(* the token of a handshake is present, parses, carries a good signature, *)
(* has not expired at the handshake and names a Driver document           *)
TokenGood(h) ==
  /\ h.token.present
  /\ h.token.wellFormed
  /\ h.token.signed
  /\ h.at < h.token.exp
  /\ h.token.driverId \in DriverDocs

(* the socket of driver d was admitted by a handshake with a good token *)
Admitted(d) ==
  /\ drvSock[d] \in 1..Len(authLog)
  /\ authLog[drvSock[d]].client = d
  /\ authLog[drvSock[d]].accepted
  /\ TokenGood(authLog[drvSock[d]])

(* C14: a handshake without token, with a token that fails verification   *)
(* or with a token whose driverId matches no Driver is rejected; a        *)
(* driver:toggle or driver:move is processed, the throttle updated and    *)
(* the store written only for a socket admitted with a good token.        *)
C14_AuthGate ==
  [][/\ \A k \in 1..Len(authLog') :
          ~TokenGood(authLog'[k]) => ~authLog'[k].accepted
     /\ \A d \in Drivers :
          /\ (Len(evLog') > Len(evLog) /\ evLog'[Len(evLog')].driverId = d)
               => (drvConn[d] /\ Admitted(d))
          /\ (d \in DOMAIN updates'
                /\ (d \notin DOMAIN updates \/ updates'[d] # updates[d]))
               => (drvConn[d] /\ Admitted(d))
          /\ (Len(writeLog') > Len(writeLog) /\ d \in DOMAIN drvOp
                /\ d \notin DOMAIN drvOp')
               => Admitted(d)]_vars

(* A client was refused with the token of an unknown driver, connected    *)
(* with its own token, and an event of that socket has been written.      *)
C14_Witness ==
  /\ Len(authLog) = 2
  /\ authLog[1].token.driverId = UnknownDriver
  /\ ~authLog[1].accepted
  /\ authLog[2].accepted
  /\ authLog[2].client = authLog[1].client
  /\ writeLog # <<>>
  /\ authLog[2].client \in DOMAIN updates

(* ------------------------------------------------------------------ *)
(* Properties of the driver's disconnect                               *)
(* ------------------------------------------------------------------ *)
(* the socket of d has had a successful toggle or move for bus b: each    *)
(* success joins the socket to bus:<b>                                    *)
HadSuccess(d, b) == BusRoom(b) \in rooms[d]

(* the bus of the latest driver:toggle:success or driver:move:success     *)
(* sent to d, "" if none                                                  *)
LatestSuccessBus(d) ==
  LET S == {i \in 1..Len(drvReply[d]) :
              drvReply[d][i].ev \in {"driver:toggle:success", "driver:move:success"}}
  IN  IF S = {} THEN ""
      ELSE drvReply[d][CHOOSE i \in S : \A j \in S : j <= i].busId

(* the socket of d disconnects in this step *)
Disconnects(d) == drvConn[d] /\ ~drvConn'[d]

(* the toggle of b to offline started by the disconnect of d is in flight *)
OfflineAttempt(d, b) ==
  /\ d \in DOMAIN drvOp
  /\ drvOp[d].detached
  /\ drvOp[d].kind = "toggle"
  /\ drvOp[d].busId = b
  /\ ~drvOp[d].online

(* the latest store write is the offline toggle of b started by the       *)
(* disconnect of d, and b is as that write left it                        *)
OfflineWritten(d, b) ==
  /\ writeLog # <<>>
  /\ LET w == writeLog[Len(writeLog)] IN
     /\ w.kind = "toggle" /\ w.evt = 0 /\ w.busId = b /\ w.driverId = d
     /\ ~bus[b].online
     /\ bus[b].lastUpdateAt = w.at

(* once the attempt is in flight with the assignment current, the bus     *)
(* goes offline with the instant of that write                            *)
OfflineEventually ==
  \A d \in Drivers, b \in Buses :
     (OfflineAttempt(d, b) /\ Covering(d, b, now)) ~> OfflineWritten(d, b)

(* C15 as stated: when a driver socket that has had a successful toggle   *)
(* or move for bus B disconnects, the throttle entry of the driver is     *)
(* cleared and a toggle of B to offline is attempted; with the assignment *)
(* current, B is eventually offline with lastUpdateAt the instant of      *)
(* that write.                                                            *)
C15_DisconnectAnyBus ==
  /\ [][\A d \in Drivers, b \in Buses :
          (Disconnects(d) /\ HadSuccess(d, b))
            => (d \notin DOMAIN updates' /\ OfflineAttempt(d, b)')]_vars
  /\ OfflineEventually

(* C15 for the bus of the socket's latest successful toggle or move: the  *)
(* throttle entry is cleared and that bus is toggled offline.             *)
C15_DisconnectLatestBus ==
  /\ [][\A d \in Drivers, b \in Buses :
          (Disconnects(d) /\ HadSuccess(d, b))
            => /\ d \notin DOMAIN updates'
               /\ LatestSuccessBus(d) = b => OfflineAttempt(d, b)']_vars
  /\ OfflineEventually

(* d1 has moved BUS001 and then BUS002, has disconnected, and the         *)
(* offline toggle of BUS002 has been written with the throttle entry gone *)
C15_Witness ==
  /\ OfflineWritten("d1", "BUS002")
  /\ "BUS001" \in DOMAIN bus
  /\ \E i \in 1..Len(evLog) : evLog[i].kind = "move" /\ evLog[i].driverId = "d1"
  /\ "d1" \notin DOMAIN updates
  /\ ~drvConn["d1"]

(* ------------------------------------------------------------------ *)
(* Properties of the driver's own rooms                                *)
(* ------------------------------------------------------------------ *)
(* the driver:toggle:success replies sent to d *)
ToggleSuccesses(d) ==
  {i \in 1..Len(drvReply[d]) : drvReply[d][i].ev = "driver:toggle:success"}

(* after a successful toggle the socket is in bus:<B> and route:<routeId> *)
JoinedOnSuccess ==
  \A d \in Drivers : \A i \in ToggleSuccesses(d) :
    \A w \in WritesOf(drvReply[d][i].evt) :
      /\ BusRoom(writeLog[w].busId) \in rooms[d]
      /\ RouteRoom(writeLog[w].routeId) \in rooms[d]

(* C16: after a successful driver:toggle for bus B the driver's socket is *)
(* a member of bus:B and route:<routeId> and, once the change of the      *)
(* toggle has been handled, has received the bus:status of that toggle.   *)
C16_ToggleCorroborated ==
  /\ JoinedOnSuccess
  /\ \A d \in Drivers : \A i \in ToggleSuccesses(d) :
       \A w \in WritesOf(drvReply[d][i].evt) :
         Handled(w) =>
           \E j \in 1..Len(inbox[d]) :
             /\ inbox[d][j].ev = "bus:status"
             /\ inbox[d][j].busId = writeLog[w].busId
             /\ inbox[d][j].seq = w

(* C16, the memberships alone: joined after a successful toggle, and a    *)
(* toggle answered with driver:toggle:error leaves the rooms of the       *)
(* socket as they were.                                                   *)
C16_Memberships ==
  [][/\ JoinedOnSuccess'
     /\ \A d \in Drivers :
          (/\ Len(drvReply'[d]) > Len(drvReply[d])
           /\ drvReply'[d][Len(drvReply'[d])].ev = "driver:toggle:error")
            => rooms'[d] = rooms[d]]_vars

(* ------------------------------------------------------------------ *)
(* Properties of the timestamps                                        *)
(* ------------------------------------------------------------------ *)
(* the latest write of bus b in writeLog, 0 if none *)
LastWrite(b) ==
  LET S == {k \in 1..Len(writeLog) : writeLog[k].busId = b}
  IN  IF S = {} THEN 0 ELSE CHOOSE k \in S : \A j \in S : j <= k

(* C17: a Bus record whose most recent write was an accepted sample has   *)
(* lastUpdateAt >= lastOnlineAt, also when the clock advances between the *)
(* two timestamps of the write.                                           *)
C17_UpdateNotBeforeOnline ==
  \A b \in DOMAIN bus :
    (LastWrite(b) # 0 /\ writeLog[LastWrite(b)].kind = "sample")
      => bus[b].lastUpdateAt >= bus[b].lastOnlineAt

(* ------------------------------------------------------------------ *)
(* Properties of the range checks                                      *)
(* ------------------------------------------------------------------ *)
(* lng in [-180,180], lat in [-90,90], speed in [0,200], heading in       *)
(* [0,maxHeading]                                                         *)
WithinRanges(lng, lat, speed, heading, maxHeading) ==
  /\ -180 * 100000 <= lng /\ lng <= 180 * 100000
  /\ -90 * 100000 <= lat /\ lat <= 90 * 100000
  /\ 0 <= speed /\ speed <= 200
  /\ 0 <= heading /\ heading <= maxHeading

(* Every record whose latest write is a sample, and every sample written, *)
(* is within the ranges; a sample outside them that passed the throttle   *)
(* is answered with driver:move:error and not written.                    *)
RangeGate(maxHeading) ==
  /\ \A b \in DOMAIN bus :
       (LastWrite(b) # 0 /\ writeLog[LastWrite(b)].kind = "sample")
         => WithinRanges(bus[b].location[1], bus[b].location[2], bus[b].speed,
                         bus[b].heading, maxHeading)
  /\ \A k \in 1..Len(evLog) :
       LET e == evLog[k] IN
       (e.kind = "move"
          /\ ~WithinRanges(e.lng, e.lat, e.speed, e.heading, maxHeading))
         => /\ WritesOf(k) = {}
            /\ ~e.throttled =>
                 \E r \in RepliesTo(k) : r.ev = "driver:move:error"

(* C18: every Bus record written by driver:move has lng in [-180,180],    *)
(* lat in [-90,90], speed in [0,200] and heading in [0,360), 360          *)
(* excluded; a sample outside these ranges is answered with               *)
(* driver:move:error and leaves the store unchanged.                      *)
C18_RangesHeadingBelow360 == RangeGate(359)

(* C18 with heading in [0,360], 360 included *)
C18_RangesHeadingUpTo360 == RangeGate(360)

(* ------------------------------------------------------------------ *)
(* Bus lifecycle                                                        *)
(* ------------------------------------------------------------------ *)
(* the step completes a store round trip of a driver handler (toggle,    *)
(* move, or the toggle of a disconnect)                                  *)
DriverIngressStep ==
  \E d \in DOMAIN drvOp : drvOp[d].phase = "write" /\ d \notin DOMAIN drvOp'

(* the step logs one write, of the given kinds *)
LogsWrite(kinds) ==
  /\ Len(writeLog') = Len(writeLog) + 1
  /\ writeLog'[Len(writeLog')].kind \in kinds

MoveStep ==
  /\ Len(evLog') = Len(evLog) + 1
  /\ evLog'[Len(evLog')].kind = "move"

(* C20: shouldUpdate(driverId, lng, lat, ts) returns true iff no entry is  *)
(* stored for the driver, or ts is at least 2000 ms after the entry's and  *)
(* (lng, lat) at least 20 m from its coordinates; when it returns true the *)
(* driver's entry becomes (ts, (lng, lat)), when it returns false the      *)
(* entry stays; the entries of the other drivers stay in both cases.       *)
C20_ThrottleDecision ==
  [][ MoveStep =>
        LET e == evLog'[Len(evLog')]
            d == e.driverId
            accept ==
              \/ d \notin DOMAIN updates
              \/ /\ e.ts - updates[d].timestamp >= 2000
                 /\ calculateDistance(updates[d].coordinates[2],
                                      updates[d].coordinates[1], e.lat, e.lng)
                      >= 20 * 1000
        IN  /\ ~e.throttled <=> accept
            /\ ~e.throttled =>
                  /\ DOMAIN updates' = DOMAIN updates \cup {d}
                  /\ updates'[d].timestamp = e.ts
                  /\ updates'[d].coordinates = <<e.lng, e.lat>>
            /\ e.throttled => d \in DOMAIN updates' /\ updates'[d] = updates[d]
            /\ \A o \in Drivers \ {d} :
                  /\ o \in DOMAIN updates' <=> o \in DOMAIN updates
                  /\ o \in DOMAIN updates => updates'[o] = updates[o] ]_vars

(* a sample 2000 ms after the driver's entry but 18.9 m from it was        *)
(* rejected: the entry is still the first sample, beside another driver's  *)
C20_Witness ==
  /\ Len(evLog) = 2
  /\ evLog[2].kind = "move" /\ evLog[2].throttled
  /\ evLog[1].kind = "move" /\ ~evLog[1].throttled /\ evLog[1].fresh
  /\ evLog[1].driverId = evLog[2].driverId
  /\ evLog[2].ts - evLog[1].ts >= MIN_TIME_INTERVAL
  /\ evLog[2].driverId \in DOMAIN updates
  /\ updates[evLog[2].driverId].timestamp = evLog[1].ts
  /\ updates[evLog[2].driverId].coordinates = <<evLog[1].lng, evLog[1].lat>>

(* ------------------------------------------------------------------ *)
(* Samples the throttle rejects                                         *)
(* ------------------------------------------------------------------ *)
(* the events of the trip of ScenarioSamples: d1 sends the samples of 0, *)
(* 1 and 3 s in this order and every handler has returned                *)
TripDone ==
  /\ Len(evLog) = 3
  /\ \A k \in 1..3 :
       /\ evLog[k].kind = "move" /\ evLog[k].driverId = "d1"
       /\ evLog[k].busId = "BUS001"
       /\ Done(k)
  /\ <<evLog[1].ts, evLog[2].ts, evLog[3].ts>> = <<0, 1000, 3000>>

(* C21: a driver:move the throttle rejects is dropped in silence: the     *)
(* step changes no Bus record, sends no reply, starts no handler and      *)
(* queues or emits no event, and no later write or reply belongs to it;   *)
(* of the samples at 0, 1 and 3 s, 20 m apart, exactly the first and the  *)
(* third are persisted.                                                   *)
C21_ThrottledDropped ==
  [][ /\ (MoveStep /\ evLog'[Len(evLog')].throttled) =>
           UNCHANGED <<bus, docCount, drvReply, drvOp, stream, inbox, writeLog,
                       rooms, drvData>>
      /\ \A k \in 1..Len(evLog') :
           (evLog'[k].kind = "move" /\ evLog'[k].throttled) =>
              /\ \A j \in 1..Len(writeLog') : writeLog'[j].evt /= k
              /\ \A d \in Drivers : \A i \in 1..Len(drvReply'[d]) :
                    drvReply'[d][i].evt /= k
      /\ TripDone' =>
           /\ Len(writeLog') = 2
           /\ writeLog'[1].evt = 1 /\ writeLog'[2].evt = 3
           /\ writeLog'[1].kind = "sample" /\ writeLog'[2].kind = "sample"
           /\ bus'["BUS001"].location = <<evLog'[3].lng, evLog'[3].lat>> ]_vars

(* the trip is over: the sample of 1 s was rejected, those of 0 and 3 s   *)
(* are written and answered                                               *)
C21_Witness ==
  /\ TripDone
  /\ evLog[2].throttled /\ ~evLog[1].throttled /\ ~evLog[3].throttled
  /\ Len(writeLog) = 2
  /\ Len(drvReply["d1"]) = 2

(* ------------------------------------------------------------------ *)
(* Toggles without an assignment                                        *)
(* ------------------------------------------------------------------ *)
(* no assignment of driver d and bus b is active with a shift window    *)
(* that contains the present instant                                     *)
NoCurrentAssignment(d, b) ==
  ~ \E a \in AssignIds :
       /\ Assignments[a].driverId = d /\ Assignments[a].busId = b
       /\ assignActive[a]
       /\ Assignments[a].shiftStart <= now /\ now <= Assignments[a].shiftEnd

(* the step resolves the assignment lookup of a driver:toggle of d *)
ToggleLookup(d) ==
  /\ d \in DOMAIN drvOp
  /\ drvOp[d].kind = "toggle" /\ drvOp[d].phase = "find" /\ ~drvOp[d].detached
  /\ d \notin DOMAIN drvOp' \/ drvOp'[d].phase /= "find"

(* C22: a driver:toggle whose lookup finds no active assignment of the   *)
(* driver and the bus covering the present instant is answered with      *)
(* driver:toggle:error and stops: no Bus record is created or changed,   *)
(* the socket joins no room, and neither a write nor a                   *)
(* driver:toggle:success follows.                                        *)
C22_ToggleWithoutAssignment ==
  [][ /\ \A d \in Drivers :
           (ToggleLookup(d) /\ NoCurrentAssignment(d, drvOp[d].busId)) =>
              /\ d \notin DOMAIN drvOp'
              /\ drvReply'[d] =
                   Append(drvReply[d],
                          Reply("driver:toggle:error", drvOp[d].busId,
                                NoAssignmentError, drvOp[d].evt))
              /\ UNCHANGED <<bus, docCount, rooms, drvData, writeLog, stream, inbox>>
      /\ \A d \in Drivers : \A i \in 1..Len(drvReply'[d]) :
           (drvReply'[d][i].ev = "driver:toggle:error"
              /\ drvReply'[d][i].error = NoAssignmentError) =>
              /\ \A j \in 1..Len(writeLog') : writeLog'[j].evt /= drvReply'[d][i].evt
              /\ \A h \in 1..Len(drvReply'[d]) :
                    drvReply'[d][h].evt = drvReply'[d][i].evt => h = i ]_vars

(* d1's toggle of BUS001 got the error within its shift, the assignment  *)
(* having been deactivated; d1 is in no bus or route room and nothing    *)
(* was written                                                            *)
C22_Witness ==
  /\ ~assignActive["a1"]
  /\ now <= Assignments["a1"].shiftEnd
  /\ \E i \in 1..Len(drvReply["d1"]) :
       /\ drvReply["d1"][i].ev = "driver:toggle:error"
       /\ drvReply["d1"][i].error = NoAssignmentError
       /\ drvReply["d1"][i].busId = "BUS001"
  /\ rooms["d1"] = {DriverRoom("d1")}
  /\ writeLog = <<>>

(* ------------------------------------------------------------------ *)
(* Properties of subscribe:route                                        *)
(* ------------------------------------------------------------------ *)
(* the completed subscribe:route events of socket p, in snapLog *)
RouteSubs(p) ==
  {k \in 1..Len(snapLog) : snapLog[k].kind = "route" /\ snapLog[k].socket = p}

(* the route:buses events in the inbox of socket p *)
RouteLists(p) ==
  {i \in 1..Len(inbox[p]) : inbox[p][i].ev = "route:buses"}

Leaves(p) == rooms'[p] /= rooms[p] /\ rooms'[p] \subseteq rooms[p]

(* the events socket p receives in the step *)
Received(p) == {inbox'[p][i] : i \in (Len(inbox[p]) + 1)..Len(inbox'[p])}

(* an unsubscribe of p removes one membership of p, changes no other      *)
(* socket's rooms and emits nothing                                       *)
UnsubscribeFrame ==
  \A p \in Passengers :
    Leaves(p) =>
      /\ Cardinality(rooms[p] \ rooms'[p]) = 1
      /\ \A s \in Sockets \ {p} : rooms'[s] = rooms[s]
      /\ inbox' = inbox

(* C24 (as stated): unsubscribe:bus{B} and unsubscribe:route{R} remove    *)
(* only that membership of that socket, leave all other memberships as    *)
(* they are and emit nothing; and a socket that is then neither in bus:B  *)
(* nor in the room of B's route receives no event for B.                  *)
C24_UnsubscribeSilent ==
  [][ /\ UnsubscribeFrame
      /\ \A p \in Passengers : \A e \in Received(p) :
           e.ev /= "route:buses" =>
              \/ BusRoom(e.busId) \in rooms[p]
              \/ RouteRoom(e.routeId) \in rooms[p] ]_vars

(* C24 without the callbacks of earlier subscribes: an unsubscribe        *)
(* removes only its membership and emits nothing, and a socket that is    *)
(* neither in bus:B nor in the room of B's route receives no broadcast    *)
(* for B; the snapshot of a subscribe:bus that was pending still arrives. *)
C24_UnsubscribeStopsBroadcasts ==
  [][ /\ UnsubscribeFrame
      /\ \A p \in Passengers : \A e \in Received(p) :
           (e.ev /= "route:buses" /\ e.src /= "snapshot") =>
              \/ BusRoom(e.busId) \in rooms[p]
              \/ RouteRoom(e.routeId) \in rooms[p] ]_vars

(* ------------------------------------------------------------------ *)
(* The lastSeen descriptor                                              *)
(* ------------------------------------------------------------------ *)
(* the buses of the latest response of /buses/near or /buses/:busId *)
Returned ==
  IF httpResp.kind = "get" /\ httpResp.status = 200 THEN {httpResp}
  ELSE IF httpResp.kind = "near"
  THEN {httpResp.buses[i] : i \in 1..Len(httpResp.buses)}
  ELSE {}

Max(a, b) == IF a > b THEN a ELSE b

(* the status the thresholds give for m minutes, from m0 minutes on *)
StatusByAge(m) ==
  IF m < 5 THEN "very_recent" ELSE IF m < 30 THEN "recent"
  ELSE IF m < 120 THEN "moderate" ELSE "old"

(* C25 (as stated): every bus the read API returns has lastSeen.timestamp *)
(* = max(lastUpdateAt, lastOnlineAt) and lastSeen.status very_recent for  *)
(* minutesAgo < 5 (0 included), recent for 5..29, moderate for 30..119,   *)
(* old from 120 on; unknown only for a bus without a timestamp.           *)
C25_LastSeen ==
  \A e \in Returned :
    /\ e.lastSeen.timestamp = Max(e.lastUpdateAt, e.lastOnlineAt)
    /\ e.lastSeen.status = StatusByAge(e.lastSeen.minutesAgo)

(* C25 as the code computes it: lastSeen.timestamp is lastUpdateAt, the   *)
(* status follows the thresholds from one minute on, and is unknown when  *)
(* minutesAgo is 0.                                                       *)
C25_LastSeenAsComputed ==
  \A e \in Returned :
    /\ e.lastSeen.timestamp = e.lastUpdateAt
    /\ e.lastSeen.status =
         IF e.lastSeen.minutesAgo = 0 THEN "unknown"
         ELSE StatusByAge(e.lastSeen.minutesAgo)


(* ------------------------------------------------------------------ *)
(* The ETA value                                                        *)
(* ------------------------------------------------------------------ *)
(* The ETA worker on a store that holds BUS001, online on one of the    *)
(* routes, between 0 and 41 units north of the first stop, at 0, 1, 2   *)
(* or 40 km/h; smoothedSpeeds holds nothing for the bus, or what earlier *)
(* runs left: 1 or 40 km/h (a steady speed), 0.7 (1 km/h, then 0) or     *)
(* 28.3 (40 km/h, then 1).  p1 follows the bus and p2 route RT1.         *)
EtaPositions == {0, 1, 5, 10, 18, 20, 21, 30, 41}
EtaSpeeds == {0, 1, 2, 40}
EtaSmoothed == {0, 700, 1000, 28300, 40000}

InitEta ==
  /\ \E lat \in EtaPositions, speed \in EtaSpeeds, r \in Routes :
       bus = ("BUS001" :>
                [BusDefaults(0) EXCEPT !.routeId = r, !.driverId = "d1",
                                       !.online = TRUE, !.location = <<0, lat>>,
                                       !.speed = speed])
  /\ \E v \in EtaSmoothed :
       smoothedSpeeds = IF v = 0 THEN <<>> ELSE ("BUS001" :> v)
  /\ watcher = WatcherStarted
  /\ staleEmit = <<>>
  /\ drvOld = <<>>
  /\ now = 0
  /\ docCount = [b \in Buses |-> IF b = "BUS001" THEN 1 ELSE 0]
  /\ assignActive = [a \in AssignIds |-> TRUE]
  /\ updates = <<>>
  /\ stream = <<>>
  /\ subPend = <<>>
  /\ drvData = [d \in Drivers |-> NoData]
  /\ drvOp = <<>>
  /\ drvReply = [d \in Drivers |-> <<>>]
  /\ stalePc = "idle"
  /\ staleBuses = {}
  /\ evLog = <<>>
  /\ nSub = 0
  /\ writeLog = <<>>
  /\ quietSince = [b \in Buses |-> 0]
  /\ snapLog = <<>>
  /\ httpResp = [kind |-> "none"]
  /\ authLog = <<>>
  /\ drvSock = [d \in Drivers |-> 0]
  /\ drvConn = [d \in Drivers |-> FALSE]
  /\ rooms = [s \in Sockets |->
                IF s = "p1" THEN {BusRoom("BUS001")}
                ELSE IF s = "p2" THEN {RouteRoom("RT1")} ELSE {}]
  /\ inbox = [s \in Sockets |-> <<>>]

NextEta ==
  \/ EtaTick
  \/ Advance

SpecEta == InitEta /\ [][NextEta]_vars

(* the eta:update events delivered *)
EtaEvents ==
  {e \in UNION {{inbox[p][i] : i \in 1..Len(inbox[p])} : p \in Passengers} :
     e.ev = "eta:update"}

(* ceil(D / 1000 / (s / 60)) for D in millimetres, s in 0.001 km/h *)
CeilMinutes(mm, s) == (3 * mm + 50 * s - 1) \div (50 * s)

(* C26 (as stated): every emitted eta:update has nextStop.eta =          *)
(* max(1, ceil(D/1000 / (s/60))) minutes for the distance D and the      *)
(* smoothed speed s >= 1 km/h, so never below the travel time, and its   *)
(* estimatedArrival is the computation instant plus nextStop.eta minutes. *)
C26_EtaValue ==
  \A e \in EtaEvents :
    /\ e.smoothedSpeed >= 1000
    /\ e.nextStop.eta = Max(1, CeilMinutes(e.minDistance, e.smoothedSpeed))
    /\ e.nextStop.eta * (50 * e.smoothedSpeed) >= 3 * e.minDistance
    /\ e.estimatedArrival = e.timestamp + e.nextStop.eta * 60000

(* C26 as the code computes it: nextStop.eta is the travel time rounded  *)
(* to the nearest minute, at least 1 and at most half a minute short;    *)
(* estimatedArrival is the instant plus the rounded minutes before the   *)
(* minimum of 1 is applied.                                              *)
C26_EtaAsComputed ==
  \A e \in EtaEvents :
    /\ e.smoothedSpeed >= 1000
    /\ e.nextStop.eta = Max(1, etaMinutes(e.minDistance, e.smoothedSpeed))
    /\ e.nextStop.eta >= 1
    /\ 2 * e.nextStop.eta * (50 * e.smoothedSpeed)
         >= 2 * 3 * e.minDistance - 50 * e.smoothedSpeed
    /\ e.estimatedArrival =
         e.timestamp + etaMinutes(e.minDistance, e.smoothedSpeed) * 60000


(* ------------------------------------------------------------------ *)
(* The demotion and the driver's writes                                 *)
(* ------------------------------------------------------------------ *)
(* the step is the worker's update of a bus *)
DemotionStep ==
  /\ Len(writeLog') = Len(writeLog) + 1
  /\ writeLog'[Len(writeLog')].kind = "stale"

(* C27 (as stated): whenever the staleness worker sets B.online = false, *)
(* B's stored lastUpdateAt at the instant of that write is older than    *)
(* the cutoff (now - 60 s) and B was online: no demotion decided from    *)
(* an earlier scan overwrites a later accepted write.                    *)
C27_DemotionSerialized ==
  [][ DemotionStep =>
        LET b == writeLog'[Len(writeLog')].busId
        IN  /\ bus[b].online
            /\ bus[b].lastUpdateAt < now - StaleWindow ]_vars

(* C27 as the code behaves: the bus was online and older than the cutoff *)
(* in the result of the worker's find, which the update does not check   *)
(* again.                                                                *)
C27_DemotionFromScan ==
  [][ DemotionStep =>
        \E found \in staleBuses :
          /\ found.busId = writeLog'[Len(writeLog')].busId
          /\ found.lastUpdateAt < now - StaleWindow
          /\ ~bus'[found.busId].online ]_vars


(* ------------------------------------------------------------------ *)
(* The effect of a toggle and of a sample on the record                 *)
(* ------------------------------------------------------------------ *)
(* the step is the store write of driver d's suspended handler *)
Written(d, kind) ==
  /\ d \in DOMAIN drvOp
  /\ d \notin DOMAIN drvOp'
  /\ drvOp[d].kind = kind
  /\ Len(writeLog') = Len(writeLog) + 1

(* C28 (as stated): an accepted toggle sets online to the requested      *)
(* value, routeId to the assignment's routeId, driverId to the driver    *)
(* and lastUpdateAt to the write instant; it sets lastOnlineAt to that   *)
(* same instant iff online = true; a toggle to online = false leaves     *)
(* lastOnlineAt, location, speed and heading unchanged; the record is    *)
(* created if absent.                                                    *)
C28_ToggleEffect ==
  [][ \A d \in Drivers :
        Written(d, "toggle") =>
          LET op == drvOp[d]
              b == op.busId
          IN  /\ b \in DOMAIN bus'
              /\ bus'[b].online = op.online
              /\ bus'[b].routeId = op.routeId
              /\ bus'[b].driverId = d
              /\ \E t \in now..now' :
                   /\ bus'[b].lastUpdateAt = t
                   /\ op.online => bus'[b].lastOnlineAt = t
              /\ (~op.online /\ b \in DOMAIN bus) =>
                   /\ bus'[b].lastOnlineAt = bus[b].lastOnlineAt
                   /\ bus'[b].location = bus[b].location
                   /\ bus'[b].speed = bus[b].speed
                   /\ bus'[b].heading = bus[b].heading ]_vars

(* C28 as the code behaves: the same, with lastOnlineAt of a toggle to   *)
(* online taken from a second reading of the clock, at or after          *)
(* lastUpdateAt.                                                         *)
C28_ToggleEffectTwoClocks ==
  [][ \A d \in Drivers :
        Written(d, "toggle") =>
          LET op == drvOp[d]
              b == op.busId
          IN  /\ b \in DOMAIN bus'
              /\ bus'[b].online = op.online
              /\ bus'[b].routeId = op.routeId
              /\ bus'[b].driverId = d
              /\ bus'[b].lastUpdateAt = now
              /\ op.online => bus'[b].lastOnlineAt = now'
              /\ (~op.online /\ b \in DOMAIN bus) =>
                   /\ bus'[b].lastOnlineAt = bus[b].lastOnlineAt
                   /\ bus'[b].location = bus[b].location
                   /\ bus'[b].speed = bus[b].speed
                   /\ bus'[b].heading = bus[b].heading ]_vars

(* C29 (as stated): after an accepted driver:move for bus B, B.online =  *)
(* true, B.location, speed and heading are the sample's, B.routeId is    *)
(* the resolved assignment's routeId, B.driverId the sending driver, and *)
(* lastUpdateAt and lastOnlineAt both equal the one write instant, also   *)
(* when B was toggled offline or demoted stale before.                   *)
C29_SampleEffect ==
  [][ \A d \in Drivers :
        Written(d, "move") =>
          LET op == drvOp[d]
              b == op.busId
          IN  /\ b \in DOMAIN bus'
              /\ bus'[b].online
              /\ bus'[b].location = <<op.lng, op.lat>>
              /\ bus'[b].speed = op.speed
              /\ bus'[b].heading = op.heading
              /\ bus'[b].routeId = op.routeId
              /\ bus'[b].driverId = d
              /\ \E t \in now..now' :
                   /\ bus'[b].lastUpdateAt = t
                   /\ bus'[b].lastOnlineAt = t ]_vars

(* C29 as the code behaves: the same, with lastOnlineAt from a second    *)
(* reading of the clock, at or after lastUpdateAt.                       *)
C29_SampleEffectTwoClocks ==
  [][ \A d \in Drivers :
        Written(d, "move") =>
          LET op == drvOp[d]
              b == op.busId
          IN  /\ b \in DOMAIN bus'
              /\ bus'[b].online
              /\ bus'[b].location = <<op.lng, op.lat>>
              /\ bus'[b].speed = op.speed
              /\ bus'[b].heading = op.heading
              /\ bus'[b].routeId = op.routeId
              /\ bus'[b].driverId = d
              /\ bus'[b].lastUpdateAt = now
              /\ bus'[b].lastOnlineAt = now' ]_vars


(* ------------------------------------------------------------------ *)
(* Several matching assignments                                         *)
(* ------------------------------------------------------------------ *)
(* The earlier shift a4 is still active: at instant 0 both a4 (RT2,      *)
(* from -60 s) and a1 (RT1, from 0) match d1 and BUS001.  The drivers    *)
(* toggle and move BUS001.                                               *)
InitResolve ==
  /\ StoreWith([a \in AssignIds |-> TRUE])
  /\ drvConn = [d \in Drivers |-> TRUE]
  /\ rooms = [s \in Sockets |->
       IF s \in Drivers THEN {DriverRoom(s)}
       ELSE IF s = "p1" THEN {BusRoom("BUS001"), RouteRoom("RT1")}
       ELSE {RouteRoom("RT1")}]
  /\ inbox = [s \in Sockets |->
       IF s \in Drivers THEN <<>> ELSE <<RouteBuses("RT1", {})>>]

NextResolve ==
  \/ \E t \in GatedTargets, online \in BOOLEAN : DriverToggle(t[1], t[2], online)
  \/ \E t \in GatedTargets :
        DriverMove(t[1], t[2], GatedSample[1], GatedSample[2], GatedSample[3],
                   GatedSample[4], GatedSample[5])
  \/ \E d \in Drivers : DriverFind(d)
  \/ \E d \in Drivers : DriverWrite(d)
  \/ Advance

SpecResolve == InitResolve /\ [][NextResolve]_vars

(* the assignments Assignment.findOne can return to driver d's handler *)
Matches(d) == findAssignment(d, drvOp[d].busId, now)

(* the match with the greatest shiftStart *)
Latest(S) ==
  CHOOSE a \in S : \A x \in S : Assignments[x].shiftStart <= Assignments[a].shiftStart

(* C30 (as stated): when more than one assignment has the driver's id,   *)
(* the busId, active = true and a window covering now, toggle and move   *)
(* use the one with the greatest shiftStart: its routeId is the routeId  *)
(* written to the Bus record.                                            *)
C30_LatestShift ==
  [][ \A d \in Drivers :
        (/\ d \in DOMAIN drvOp /\ drvOp[d].phase = "find"
         /\ d \in DOMAIN drvOp' /\ drvOp'[d].phase = "write"
         /\ Cardinality(Matches(d)) > 1)
        => drvOp'[d].routeId = Assignments[Latest(Matches(d))].routeId ]_vars

(* C30 as the code behaves: the routeId is that of one of the matching   *)
(* assignments, whichever the store returns.                             *)
C30_SomeMatch ==
  [][ \A d \in Drivers :
        (/\ d \in DOMAIN drvOp /\ drvOp[d].phase = "find"
         /\ d \in DOMAIN drvOp' /\ drvOp'[d].phase = "write")
        => \E a \in Matches(d) : drvOp'[d].routeId = Assignments[a].routeId ]_vars


(* ------------------------------------------------------------------ *)
(* The ETA's stop and progress                                          *)
(* ------------------------------------------------------------------ *)
(* the travel-order index (from 0) of the next stop an eta:update names *)
NextStopIndex(e) ==
  (CHOOSE i \in 1..Len(RouteStops[e.routeId]) :
     RouteStops[e.routeId][i].stopId = e.nextStop.stopId) - 1

(* C31 (as stated): for every online bus with a location on a route with *)
(* n >= 1 stops the ETA tick names as next stop a stop whose travel-order *)
(* index is not below that of the closest stop, and emits a routeProgress *)
(* that is a well-defined number, closestIndex / (n - 1) as a percentage  *)
(* within [0, 100], also on a route with exactly one stop.                *)
C31_StopAndProgress ==
  \A e \in EtaEvents :
    LET n == Len(RouteStops[e.routeId])
    IN  /\ NextStopIndex(e) >= e.closestIndex
        /\ ~e.routeProgress.isNaN
        /\ e.routeProgress.value \in 0..100
        /\ n > 1 => 2 * (n - 1) * e.routeProgress.value
                         \in (200 * e.closestIndex - (n - 1))
                             ..(200 * e.closestIndex + (n - 1))

(* C31 as the code computes it: the next stop is the closest stop, and    *)
(* routeProgress is the rounded percentage on a route with two stops or   *)
(* more and NaN on a route with one stop.                                 *)
C31_StopAndProgressAsComputed ==
  \A e \in EtaEvents :
    LET n == Len(RouteStops[e.routeId])
    IN  /\ NextStopIndex(e) = e.closestIndex
        /\ e.routeProgress.isNaN <=> n = 1
        /\ n > 1 => /\ e.routeProgress.value \in 0..100
                    /\ 2 * (n - 1) * e.routeProgress.value
                         \in (200 * e.closestIndex - (n - 1))
                             ..(200 * e.closestIndex + (n - 1))


(* ------------------------------------------------------------------ *)
(* The smoothed speed of a demoted bus                                  *)
(* ------------------------------------------------------------------ *)
(* The ETA worker beside the stale worker: d1 reports BUS001 at 40 km/h, *)
(* falls silent and the bus is demoted; d2, assigned from 60 s on,       *)
(* reports it again at 10 km/h.                                          *)
EvictSamples == {<<"d1", 0, 0, 40, 90, 0>>, <<"d2", 0, 18, 10, 90, 130000>>}

NextEvict ==
  \/ \E m \in EvictSamples :
        DriverMove(m[1], "BUS001", m[2], m[3], m[4], m[5], m[6])
  \/ \E d \in Drivers : DriverFind(d)
  \/ \E d \in Drivers : DriverWrite(d)
  \/ Advance
  \/ StaleScan
  \/ \E found \in staleBuses : StaleUpdate(found)
  \/ EtaTick

SpecEvict == Init /\ [][NextEvict]_vars

(* bus b is offline because of a stale demotion *)
Demoted(b) ==
  /\ b \in DOMAIN bus
  /\ ~bus[b].online
  /\ LastSeq(b) > 0
  /\ writeLog[LastSeq(b)].kind = "stale"

(* the instants of the stale demotions of b, and of the ETAs emitted for b *)
DemotedAt(b) ==
  {writeLog[k].at : k \in {i \in 1..Len(writeLog) :
                             writeLog[i].busId = b /\ writeLog[i].kind = "stale"}}
EtaAt(b) == {e.at : e \in {x \in EtaEvents : x.busId = b}}

(* C32 (as stated): when a bus is demoted by the staleness worker its    *)
(* smoothed-speed entry is evicted: in every state a bus that is offline *)
(* because of a stale demotion has no smoothed-speed entry, and its      *)
(* first ETA after coming back online starts from its current speed.     *)
C32_EvictedOnDemotion ==
  [][ /\ \A b \in Buses : Demoted(b)' => b \notin DOMAIN smoothedSpeeds'
      /\ \A e \in EtaEvents' \ EtaEvents :
           (\E t \in DemotedAt(e.busId) : \A u \in EtaAt(e.busId) : u < t)
           => e.smoothedSpeed = Max(1000, 1000 * bus[e.busId].speed) ]_vars

(* C32 as the code behaves: the worker's map only grows, and every ETA   *)
(* of a bus with an entry is smoothed from that entry.                   *)
C32_EntryKept ==
  [][ /\ DOMAIN smoothedSpeeds \subseteq DOMAIN smoothedSpeeds'
      /\ \A e \in EtaEvents' \ EtaEvents :
           e.smoothedSpeed = getSmoothedSpeed(smoothedSpeeds, e.busId,
                                              bus[e.busId].speed) ]_vars


(* ------------------------------------------------------------------ *)
(* The change stream watcher's life cycle                               *)
(* ------------------------------------------------------------------ *)
MaxStreamFaults == 2
MaxWatchFailures == 2
MaxWatchedWrites == 2
MaxStreams == 3

WatcherFrame ==
  UNCHANGED <<drvOld, staleEmit, smoothedSpeeds, docCount, authLog, drvSock, httpResp, assignActive,
              bus, updates, stream, rooms, inbox, subPend, drvConn, drvData,
              drvOp, drvReply, stalePc, staleBuses, evLog, nSub, writeLog,
              quietSince, snapLog>>

OpenStreams(w) == {s \in 1..Len(w.streams) : ~w.streams[s].closed}

(* The stream fails: the driver emits 'error', whose handler calls         *)
(* reconnect(), and closes the stream.                                     *)
StreamError(s) ==
  /\ s \in OpenStreams(watcher)
  /\ watcher.faults < MaxStreamFaults
  /\ LET w == reconnect(watcher, now)
     IN  watcher' = [w EXCEPT !.streams = closeStream(@, s), !.faults = @ + 1]
  /\ UNCHANGED now
  /\ WatcherFrame

(* The stream is closed from outside the watcher (the cursor ends). *)
StreamClose(s) ==
  /\ s \in OpenStreams(watcher)
  /\ watcher.faults < MaxStreamFaults
  /\ watcher' = [watcher EXCEPT !.streams = closeStream(@, s), !.faults = @ + 1]
  /\ UNCHANGED now
  /\ WatcherFrame

(* The 'close' event of stream s is dispatched: its handler calls reconnect(). *)
CloseEvent(s) ==
  /\ s \in 1..Len(watcher.streams)
  /\ watcher.streams[s].closeEvt = "pending"
  /\ watcher' = reconnect([watcher EXCEPT !.streams[s].closeEvt = "done"], now)
  /\ UNCHANGED now
  /\ WatcherFrame

(* the timer that fires next: the earliest due, the first set among those *)
NextTimer(w) ==
  CHOOSE i \in 1..Len(w.timers) :
    /\ \A j \in 1..Len(w.timers) : w.timers[i].due <= w.timers[j].due
    /\ \A j \in 1..(i - 1) : w.timers[j].due > w.timers[i].due

DropTimer(w, i) ==
  [w EXCEPT !.timers = SubSeq(@, 1, i - 1) \o SubSeq(@, i + 1, Len(@))]

Attempt(t, result) == [at |-> t, result |-> result]

(* The timer of reconnect() fires and calls startWatching(); accepted:    *)
(* it returns (having skipped, or with the stream Bus.watch() returned),  *)
(* otherwise Bus.watch() throws and the callback schedules reconnect() in *)
(* 30 s.                                                                  *)
AttemptStart(accepted) ==
  /\ watcher.timers /= <<>>
  /\ LET i == NextTimer(watcher)
         t == IF watcher.timers[i].due > now THEN watcher.timers[i].due ELSE now
         w == DropTimer(watcher, i)
     IN  /\ watcher.timers[i].kind = "start"
         /\ now' = t
         /\ IF accepted
            THEN /\ Len(startWatching(w).streams) <= MaxStreams
                 /\ watcher' =
                      [startWatching(w) EXCEPT
                         !.attempts =
                            Append(@, Attempt(t, IF startWatching(w) = w
                                                 THEN "skipped" ELSE "started"))]
            ELSE /\ ~watcher.isWatching
                 /\ watcher.failures < MaxWatchFailures
                 /\ watcher' =
                      [w EXCEPT !.timers = Append(@, [due |-> t + RetryDelay,
                                                      kind |-> "retry"]),
                                !.failures = @ + 1,
                                !.attempts = Append(@, Attempt(t, "failed"))]
  /\ WatcherFrame

(* The 30 s timer set after a failed start fires: reconnect(). *)
RetryFires ==
  /\ watcher.timers /= <<>>
  /\ LET i == NextTimer(watcher)
         t == IF watcher.timers[i].due > now THEN watcher.timers[i].due ELSE now
     IN  /\ watcher.timers[i].kind = "retry"
         /\ now' = t
         /\ watcher' = reconnect(DropTimer(watcher, i), t)
  /\ WatcherFrame

(* the 'change' handlers that run for mutation m: one per open stream *)
RECURSIVE changeHandled(_, _, _)
changeHandled(handled, m, S) ==
  IF S = {} THEN handled
  ELSE LET s == CHOOSE x \in S : \A y \in S : x <= y
       IN  changeHandled(Append(handled, [m |-> m, stream |-> s]), m, S \ {s})

(* A mutation of the buses collection: every open stream emits 'change'   *)
(* and its handler calls handleChange.                                     *)
WatchedWrite ==
  /\ watcher.writes < MaxWatchedWrites
  /\ watcher' = [watcher EXCEPT
                   !.writes = @ + 1,
                   !.handled = changeHandled(@, watcher.writes + 1,
                                             OpenStreams(watcher))]
  /\ UNCHANGED now
  /\ WatcherFrame

(* stopWatching() is called. *)
StopWatching ==
  /\ ~watcher.stopped
  /\ watcher' = stopWatching(watcher)
  /\ UNCHANGED now
  /\ WatcherFrame

NextWatch ==
  \/ \E s \in 1..Len(watcher.streams) : StreamError(s)
  \/ \E s \in 1..Len(watcher.streams) : StreamClose(s)
  \/ \E s \in 1..Len(watcher.streams) : CloseEvent(s)
  \/ \E accepted \in BOOLEAN : AttemptStart(accepted)
  \/ RetryFires
  \/ WatchedWrite

SpecWatch == Init /\ [][NextWatch]_vars

NextStop ==
  \/ NextWatch
  \/ StopWatching

SpecStop == Init /\ [][NextStop]_vars


(* ------------------------------------------------------------------ *)
(* Reconnect delays                                                     *)
(* ------------------------------------------------------------------ *)
(* the calls of startWatching by the reconnect timer that tried to open  *)
(* a stream, in order                                                    *)
Tried == SelectSeq(watcher.attempts, LAMBDA a : a.result /= "skipped")

(* C33 (as stated, its bounds): a reconnect attempt follows the error or *)
(* close by 5 s at first, and the delay between two consecutive attempts *)
(* never exceeds 30 s, however often the attempts fail.                  *)
C33_ReconnectBackoff ==
  /\ \A i \in 1..Len(Tried) :
        \E j \in 1..Len(watcher.reconnects) :
           watcher.reconnects[j] + ReconnectDelay <= Tried[i].at
  /\ \A i \in 1..(Len(Tried) - 1) :
        Tried[i].result = "failed" => Tried[i + 1].at - Tried[i].at <= RetryDelay

(* C33 as the code behaves: every attempt comes 5 s after a call of      *)
(* reconnect, and a failed attempt is followed by a call of reconnect    *)
(* 30 s later, so by an attempt 35 s later; the delay does not grow.     *)
C33_FixedDelays ==
  /\ \A i \in 1..Len(watcher.attempts) :
        \E j \in 1..Len(watcher.reconnects) :
           watcher.reconnects[j] + ReconnectDelay = watcher.attempts[i].at
  /\ \A i \in 1..Len(watcher.attempts) :
        watcher.attempts[i].result = "failed" =>
          \/ \E k \in 1..Len(watcher.timers) :
                /\ watcher.timers[k].kind = "retry"
                /\ watcher.timers[k].due = watcher.attempts[i].at + RetryDelay
          \/ \E j \in 1..Len(watcher.reconnects) :
                watcher.reconnects[j] = watcher.attempts[i].at + RetryDelay


(* ------------------------------------------------------------------ *)
(* One stream at a time                                                 *)
(* ------------------------------------------------------------------ *)
(* C34: under every interleaving of startWatching, stream errors, stream *)
(* closes (also the close reconnect itself causes) and the reconnect     *)
(* timers, at most one open change stream has a change handler, and it   *)
(* is this.changeStream; so each mutation is handled by handleChange at  *)
(* most once.                                                            *)
C34_SingleStream ==
  /\ Cardinality(OpenStreams(watcher)) <= 1
  /\ OpenStreams(watcher) \subseteq {watcher.changeStream}
  /\ \A i, j \in 1..Len(watcher.handled) :
        watcher.handled[i].m = watcher.handled[j].m => i = j

(* A stream failed, reconnect closed it and the close event it caused    *)
(* called reconnect again; both timers fired, a second stream was opened *)
(* and a mutation was handled on it.                                     *)
C34_Witness ==
  /\ Len(watcher.streams) >= 2
  /\ watcher.streams[1].closeEvt = "done"
  /\ Len(watcher.reconnects) >= 2
  /\ \E i \in 1..Len(watcher.attempts) : watcher.attempts[i].result = "skipped"
  /\ \E i \in 1..Len(watcher.handled) : watcher.handled[i].stream >= 2


(* ------------------------------------------------------------------ *)
(* stopWatching                                                         *)
(* ------------------------------------------------------------------ *)
(* C39 (as stated): after stopWatching() has returned the watcher stays  *)
(* stopped: isWatching is false, no stream is open, no change event is   *)
(* handled, and the close event that stopWatching caused schedules no    *)
(* reconnect (startWatching is not called explicitly again).             *)
C39_StopIsFinal ==
  [][ /\ (~watcher.stopped /\ watcher'.stopped) =>
            ~watcher'.isWatching /\ OpenStreams(watcher') = {}
      /\ watcher.stopped =>
            /\ ~watcher'.isWatching
            /\ OpenStreams(watcher') = {}
            /\ watcher'.handled = watcher.handled
            /\ watcher'.reconnects = watcher.reconnects ]_vars

(* C39 as the code behaves: when stopWatching() returns, isWatching is   *)
(* false, this.changeStream is null and no stream is open; the timers    *)
(* set before are kept and the close handler stays registered.           *)
C39_StoppedOnReturn ==
  [][ (~watcher.stopped /\ watcher'.stopped) =>
         /\ ~watcher'.isWatching
         /\ watcher'.changeStream = 0
         /\ OpenStreams(watcher') = {}
         /\ watcher'.timers = watcher.timers ]_vars


(* ------------------------------------------------------------------ *)
(* online and status                                                    *)
(* ------------------------------------------------------------------ *)
(* C35 (as stated): in every reachable store state a Bus with online =   *)
(* true does not have status = inactive; a bus that was demoted stale    *)
(* and then gets an accepted toggle to online or a sample is no longer   *)
(* inactive.                                                             *)
C35_OnlineNotInactive ==
  \A b \in DOMAIN bus : bus[b].online => bus[b].status /= "inactive"

(* C35 as the code behaves: the stale worker sets status = inactive with *)
(* online = false, and no write of a driver handler changes the status   *)
(* of an existing record.                                                *)
C35_StatusKeptByDrivers ==
  [][ /\ DemotionStep =>
           LET b == writeLog'[Len(writeLog')].busId
           IN  ~bus'[b].online /\ bus'[b].status = "inactive"
      /\ \A d \in Drivers : \A kind \in {"toggle", "move"} :
           (Written(d, kind) /\ drvOp[d].busId \in DOMAIN bus) =>
              bus'[drvOp[d].busId].status = bus[drvOp[d].busId].status ]_vars


(* ------------------------------------------------------------------ *)
(* C36: the throttle entry and the samples that reached the store      *)
(* ------------------------------------------------------------------ *)
(* the driver:move events of driver d that were written to the store *)
PersistedSamples(d) ==
  {writeLog[i].evt : i \in {j \in 1..Len(writeLog) :
                              /\ writeLog[j].kind = "move"
                              /\ writeLog[j].driverId = d
                              /\ writeLog[j].evt \in 1..Len(evLog)}}

(* the driver:move events of driver d that shouldUpdate let through *)
PassedSamples(d) ==
  {i \in 1..Len(evLog) : /\ evLog[i].kind = "move"
                         /\ evLog[i].driverId = d
                         /\ ~evLog[i].throttled}

LastSample(S) == CHOOSE i \in S : \A j \in S : j <= i

EntryIs(d, S) ==
  /\ S /= {}
  /\ LET e == evLog[LastSample(S)]
     IN  /\ updates[d].timestamp = e.ts
         /\ updates[d].coordinates = <<e.lng, e.lat>>

C36_EntryTracksPassed ==
  \A d \in DOMAIN updates : EntryIs(d, PassedSamples(d))


(* ------------------------------------------------------------------ *)
(* C37: the online flag a subscriber ends with                         *)
(* ------------------------------------------------------------------ *)
(* checkStaleBuses, one iteration of the loop up to its await: the update  *)
(* is applied in the store and the change stream gets its event; the       *)
(* worker resumes with the updated document later.                         *)
StaleWrite(found) ==
  /\ stalePc = "run"
  /\ found \in staleBuses
  /\ LET b == found.busId
         coll == findOneAndUpdate(bus, b, staleBusData(found), now)
         updatedBus == coll[b]
         seq == Len(writeLog) + 1
         statusPayload ==
           [status |-> "inactive", reason |-> "stale_timeout"]
           @@ [Event("bus:status", b, updatedBus, seq, "stale") EXCEPT !.online = FALSE]
     IN  /\ bus' = coll
         /\ stream' = Append(stream, ChangeEvent(seq, b, updatedBus))
         /\ writeLog' = Append(writeLog,
               WriteRecord("stale", b, updatedBus, FALSE,
                           {p \in Passengers :
                              \/ BusRoom(b) \in rooms[p]
                              \/ RouteRoom(updatedBus.routeId) \in rooms[p]},
                           0))
         /\ staleEmit' = <<statusPayload>>
  /\ staleBuses' = staleBuses \ {found}
  /\ stalePc' = "emit"
  /\ UNCHANGED <<drvOld, watcher, smoothedSpeeds, docCount, authLog, drvSock, httpResp, now,
                 assignActive, updates, rooms, inbox, subPend, drvConn, drvData,
                 drvOp, drvReply, evLog, nSub, quietSince, snapLog>>

(* The worker resumes after the await: bus:status goes to the bus room,    *)
(* the route room and the driver, then the loop takes the next bus.        *)
StaleEmit ==
  /\ stalePc = "emit"
  /\ LET statusPayload == staleEmit[1]
     IN  inbox' = Emit(Emit(Emit(inbox, "/user", BusRoom(statusPayload.busId),
                                 statusPayload),
                            "/user", RouteRoom(statusPayload.routeId), statusPayload),
                       "/driver", DriverRoom(statusPayload.driverId), statusPayload)
  /\ staleEmit' = <<>>
  /\ stalePc' = IF staleBuses = {} THEN "idle" ELSE "run"
  /\ UNCHANGED <<drvOld, watcher, smoothedSpeeds, docCount, authLog, drvSock, httpResp, now,
                 assignActive, bus, updates, stream, rooms, subPend, drvConn,
                 drvData, drvOp, drvReply, staleBuses, evLog, nSub, writeLog,
                 quietSince, snapLog>>

(* The stale worker beside the drivers' toggles, the worker's emit a step  *)
(* of its own after the update it awaits.                                  *)
NextConverge ==
  \/ \E t \in DriverTargets, online \in BOOLEAN : DriverToggle(t[1], t[2], online)
  \/ \E d \in Drivers : DriverFind(d)
  \/ \E d \in Drivers : DriverWrite(d)
  \/ HandleChange
  \/ Advance
  \/ StaleScan
  \/ \E found \in staleBuses : StaleWrite(found)
  \/ StaleEmit

SpecConverge == Init /\ [][NextConverge]_vars

(* the positions in socket s's inbox of the events about bus b *)
EventsAbout(s, b) ==
  {i \in 1..Len(inbox[s]) : Announces(inbox[s][i]) /\ inbox[s][i].busId = b}

(* no change event and no bus:status of the worker about b is pending *)
Delivered(b) ==
  /\ \A i \in 1..Len(stream) : stream[i].busId /= b
  /\ \A i \in 1..Len(staleEmit) : staleEmit[i].busId /= b

(* the last event about b that s received carries the stored online *)
LastOnlineMatches(s, b) ==
  /\ EventsAbout(s, b) /= {}
  /\ inbox[s][LastSample(EventsAbout(s, b))].online = bus[b].online

(* C37: for a passenger in bus:B, once every emit about B has been       *)
(* delivered (no change event about B waits in the stream, no bus:status *)
(* of the worker is pending), the last event about B that the passenger  *)
(* received carries the online value stored for B.                       *)
C37_OnlineConverges ==
  \A p \in Passengers : \A b \in DOMAIN bus :
     (BusRoom(b) \in rooms[p] /\ Delivered(b)) => LastOnlineMatches(p, b)


(* ------------------------------------------------------------------ *)
(* C38: a driver with two sockets                                      *)
(* ------------------------------------------------------------------ *)
(* The driver's client connects again while the disconnect of its socket  *)
(* has not been processed: the handshake admits a second socket of the    *)
(* same driverId, with a socket.data of its own, which joins              *)
(* driver:<driverId>.  The driver events that follow come from the new    *)
(* socket; since is the number of events the old socket had sent.         *)
DriverReconnect(d) ==
  /\ drvConn[d]
  /\ d \notin DOMAIN drvOp
  /\ d \notin DOMAIN drvOld
  /\ drvOld' = (d :> [busId |-> drvData[d].busId, routeId |-> drvData[d].routeId,
                      since |-> Len(evLog)]) @@ drvOld
  /\ drvData' = [drvData EXCEPT ![d] = NoData]
  /\ rooms' = [rooms EXCEPT ![d] = {DriverRoom(d)}]
  /\ drvSock' = [drvSock EXCEPT ![d] = 0]
  /\ UNCHANGED <<staleEmit, watcher, smoothedSpeeds, docCount, authLog, httpResp, now,
                 assignActive, bus, updates, stream, inbox, subPend, drvConn, drvOp,
                 drvReply, stalePc, staleBuses, evLog, nSub, writeLog, quietSince,
                 snapLog>>

(* disconnect of the earlier socket, the other socket still connected:    *)
(* clearDriver(driverId), and toggleBusStatus(driverId, busId, false) if   *)
(* a bus was stashed on the earlier socket.                                *)
OldDisconnect(d) ==
  /\ d \in DOMAIN drvOld
  /\ d \notin DOMAIN drvOp
  /\ updates' = clearDriver(updates, d)
  /\ drvOp' = IF drvOld[d].busId /= ""
              THEN (d :> Op("toggle", drvOld[d].busId, FALSE, 0, 0, 0, 0, TRUE, 0))
                   @@ drvOp
              ELSE drvOp
  /\ drvOld' = [x \in DOMAIN drvOld \ {d} |-> drvOld[x]]
  /\ UNCHANGED <<staleEmit, watcher, smoothedSpeeds, docCount, authLog, drvSock,
                 httpResp, now, assignActive, bus, stream, rooms, inbox, subPend,
                 drvConn, drvData, drvReply, stalePc, staleBuses, evLog, nSub,
                 writeLog, quietSince, snapLog>>

(* Drivers bring their buses online and report, connect a second time,    *)
(* and the earlier socket's disconnect is processed afterwards.           *)
NextReconnect ==
  \/ \E t \in DriverTargets : DriverToggle(t[1], t[2], TRUE)
  \/ \E t \in DriverTargets, m \in ReadSamples :
        DriverMove(t[1], t[2], m[1], m[2], m[3], m[4], m[5])
  \/ \E d \in Drivers : DriverFind(d)
  \/ \E d \in Drivers : DriverWrite(d)
  \/ \E d \in Drivers : DriverReconnect(d)
  \/ \E d \in Drivers : OldDisconnect(d)
  \/ Advance

SpecReconnect == Init /\ [][NextReconnect]_vars

(* the other socket of d has sent a sample that the throttle let through *)
ReportsSince(d, since) ==
  \E i \in (since + 1)..Len(evLog) :
     evLog[i].kind = "move" /\ evLog[i].driverId = d /\ ~evLog[i].throttled

(* the earlier socket's disconnect of d is processed in this step *)
OldSocketGone(d) == d \in DOMAIN drvOld /\ d \notin DOMAIN drvOld'

(* C38: when the disconnect of one of a driver's two sockets is           *)
(* processed, the throttle entry that the other socket's samples are      *)
(* filtered against stays; and the toggle that a disconnect starts does   *)
(* not set offline a bus that the driver's other socket has online and    *)
(* reports for.                                                           *)
C38_DisconnectScoped ==
  [][ \A d \in Drivers :
        /\ (OldSocketGone(d) /\ ReportsSince(d, drvOld[d].since)
               /\ d \in DOMAIN updates)
             => (d \in DOMAIN updates' /\ updates'[d] = updates[d])
        /\ (Written(d, "toggle") /\ drvOp[d].detached /\ drvConn[d]
               /\ drvData[d].busId = drvOp[d].busId
               /\ drvOp[d].busId \in DOMAIN bus
               /\ bus[drvOp[d].busId].online
               /\ bus[drvOp[d].busId].driverId = d)
             => bus'[drvOp[d].busId].online ]_vars

====
